---------------------------- MODULE Spec2Model ----------------------------
(***************************************************************************)
(* Model of c_src/duckdb_ex.c, the NIF layer that marshals DuckDB values   *)
(* into Erlang terms: the row materializer (result_rows_nif), the chunk    *)
(* materializer (data_chunk_get_data_nif, extract_vector_value) and their  *)
(* helpers.                                                                *)
(*                                                                         *)
(* Representation.                                                         *)
(*  - A C string / binary is a sequence of one-character strings, so that  *)
(*    printf formatting and strtoll parsing are computed, not assumed.     *)
(*  - TLC integers are 32 bit.  The 64-bit machine word of the C code      *)
(*    (long long, int64_t, uint64_t) is modelled WordBits bits wide and a  *)
(*    duckdb_hugeint is two such words.  Every constant of the code that   *)
(*    is a function of the width is written as that function of WordBits:  *)
(*    LLONG_MAX = 2^(WordBits-1)-1 (9223372036854775807 in the code),      *)
(*    2^WordBits (18446744073709551616), and the %016llx field width       *)
(*    WordBits/4.                                                          *)
(*  - An Erlang term is a record tagged by k.                              *)
(***************************************************************************)
EXTENDS Integers, Sequences, FiniteSets, TLC

VARIABLES
    result,     \* the duckdb_result held by a ResultResource (row API view)
    heapFree,   \* largest element count enif_alloc can still satisfy
    rowsOut,    \* what result_rows_nif returned, or Pending
    columnsOut, \* what result_columns_nif returned, or Pending
    chunk,      \* the duckdb_data_chunk held by a DataChunkResource
    chunkOut,   \* what data_chunk_get_data_nif returned, or Pending
    getChunkOut, \* what result_get_chunk_nif returned, or Pending
    chunkResources, \* the DataChunkResources allocated so far
    appender, \* the duckdb_appender held by an AppenderResource
    appenderCalls, \* the duckdb_append_* calls the last append NIF made
    appendOut, \* what the last appender_append_*_nif returned, or Pending
    appenderTable, \* the rows that reached the appender's target table
    appenderFrees, \* the cursors duckdb_appender_destroy released, in order
    opsLeft, \* the number of appender NIF calls the caller still makes
    callerValues, \* the integers the caller appends in this behaviour
    opOut, \* what the last appender NIF returned and on what, or Pending
    rowsCalls, \* the per-cell engine accessors result_rows_nif invoked, as [fn, col, row]
    calls, \* the connection_query / prepared_statement_prepare calls made concurrently, one record per call
    sql_buffer, \* the static char sql_buffer[] of connection_query_nif and of prepared_statement_prepare_nif
    stmt, \* the duckdb_prepared_statement held by a PreparedStatementResource
    execOut, \* what prepared_statement_execute_nif returned and did, or Pending
    conn, \* the duckdb_connection held by a ConnectionResource (transaction view)
    txnOut  \* what the transaction NIF returned, with the engine state and diagnostic, or Pending

vars == <<result, heapFree, rowsOut, columnsOut, chunk, chunkOut, getChunkOut, chunkResources, appender, appenderCalls, appendOut, appenderTable, appenderFrees, opsLeft, callerValues, opOut, rowsCalls, calls, sql_buffer, stmt, execOut, conn, txnOut>>

---------------------------------------------------------------------------
(* Bounds of the model *)

WordBits == 4
MaxCols == 2
MaxRows == 2
\* rows per chunk of a result (the engine's STANDARD_VECTOR_SIZE, scaled)
VectorSize == 1
MaxScale == 2
HeapAmple == 8
MaxOps == 2
\* bits of int, unsigned int, int32_t and uint32_t (32 in the program) and of
\* ErlNifSInt64 / ErlNifUInt64 (64 in the program) in the appender, scaled;
\* the 8- and 16-bit limits are the literals of the code
IntBits == 18
Int64Bits == 20

---------------------------------------------------------------------------
(* Machine integers *)

RECURSIVE Pow(_, _)
Pow(b, e) == IF e = 0 THEN 1 ELSE b * Pow(b, e - 1)

WordMod == Pow(2, WordBits)
LLONG_MAX == Pow(2, WordBits - 1) - 1
LLONG_MIN == -Pow(2, WordBits - 1)
ULLONG_MAX == WordMod - 1

Int64 == LLONG_MIN..LLONG_MAX
UInt64 == 0..ULLONG_MAX

\* (int64_t)x for an unsigned word x: two's complement reinterpretation
ToInt64(x) == IF x > LLONG_MAX THEN x - WordMod ELSE x
\* (uint64_t)x for a signed word x
ToUInt64(x) == IF x < 0 THEN x + WordMod ELSE x

---------------------------------------------------------------------------
(* C strings: printf conversions and strtoll *)

\* the NULL char pointer: a value no text of characters equals
NULLPTR == <<"(null)">>

DigitChars == <<"0", "1", "2", "3", "4", "5", "6", "7", "8", "9">>
HexChars == <<"0", "1", "2", "3", "4", "5", "6", "7", "8", "9", "a", "b", "c", "d", "e", "f">>

IsDigit(c) == \E i \in 1..10 : DigitChars[i] = c
DigitVal(c) == (CHOOSE i \in 1..10 : DigitChars[i] = c) - 1

\* "%llu"
RECURSIVE FormatU(_)
FormatU(n) == IF n < 10 THEN <<DigitChars[n + 1]>>
              ELSE Append(FormatU(n \div 10), DigitChars[(n % 10) + 1])

\* "%lld"
FormatD(n) == IF n < 0 THEN <<"-">> \o FormatU(-n) ELSE FormatU(n)

\* "%llx"
RECURSIVE FormatX(_)
FormatX(n) == IF n < 16 THEN <<HexChars[n + 1]>>
              ELSE Append(FormatX(n \div 16), HexChars[(n % 16) + 1])

RECURSIVE ZeroPad(_, _)
ZeroPad(s, width) == IF Len(s) >= width THEN s ELSE ZeroPad(<<"0">> \o s, width)

\* "%0<width>llx"
FormatX0(n, width) == ZeroPad(FormatX(n), width)

Literal_true == <<"t", "r", "u", "e">>
Literal_1 == <<"1">>
Literal_NULL == <<"N", "U", "L", "L">>
Literal_nan == <<"n", "a", "n">>
Literal_inf == <<"i", "n", "f">>

Drop(s, n) == SubSeq(s, n + 1, Len(s))

\* the magnitude of the longest digit prefix of s, saturated at cap + 1
RECURSIVE DigitsSat(_, _, _)
DigitsSat(s, acc, cap) ==
    IF s = <<>> \/ ~IsDigit(Head(s)) THEN [mag |-> acc, rest |-> s]
    ELSE LET next == acc * 10 + DigitVal(Head(s))
         IN DigitsSat(Tail(s), IF next > cap THEN cap + 1 ELSE next, cap)

\* strtoll(str, &endptr, 10): optional sign, digits, clamped to
\* [LLONG_MIN, LLONG_MAX]; rest is what endptr points at
StrToLL(str) ==
    LET neg == str # <<>> /\ Head(str) = "-"
        signed == str # <<>> /\ Head(str) \in {"-", "+"}
        body == IF signed THEN Tail(str) ELSE str
        p == DigitsSat(body, 0, -LLONG_MIN)
    IN IF body = <<>> \/ ~IsDigit(Head(body))
       THEN [val |-> 0, rest |-> str]
       ELSE [val |-> IF neg
                     THEN (IF p.mag > -LLONG_MIN THEN LLONG_MIN ELSE -p.mag)
                     ELSE (IF p.mag > LLONG_MAX THEN LLONG_MAX ELSE p.mag),
             rest |-> p.rest]

---------------------------------------------------------------------------
(* Erlang terms *)

enif_make_atom(name) == [k |-> "atom", v |-> name]
enif_make_int64(n) == [k |-> "int", v |-> n]
\* enif_make_double: a NaN or an infinity makes it call enif_make_badarg,
\* which leaves the exception pending whatever the NIF goes on to return
Badarg == [k |-> "badarg"]
enif_make_double(d) == IF d.cls = "fin" THEN [k |-> "double", v |-> d] ELSE Badarg
enif_make_binary(bytes) == [k |-> "bin", v |-> bytes]
enif_make_list_from_array(elems) == [k |-> "list", v |-> elems]
enif_make_tuple_from_array(elems) == [k |-> "tuple", v |-> elems]

atom_nil == enif_make_atom("nil")

\* IEEE doubles: the three special values and the finite ones as num/den
DNaN == [cls |-> "nan"]
DPosInf == [cls |-> "pinf"]
DNegInf == [cls |-> "ninf"]
DFin(n, d) == [cls |-> "fin", num |-> n, den |-> d]

isnan(d) == d.cls = "nan"
isinf(d) == d.cls \in {"pinf", "ninf"}

enif_make_int(n) == enif_make_int64(n)
enif_make_long(n) == enif_make_int64(n)
enif_make_uint(n) == enif_make_int64(n)
enif_make_uint64(n) == enif_make_int64(n)

\* what a NIF call ends in when it writes through a NULL pointer
Segfault == [k |-> "segfault"]
Pending == [k |-> "pending"]

---------------------------------------------------------------------------
(* enif_alloc: a request for n elements fails (returns NULL) when it *)
(* exceeds what the allocator can still satisfy                      *)

AllocOK(heap, n) == n <= heap

---------------------------------------------------------------------------
(* Engine type identifiers (duckdb_type) *)

MappedTypes ==
    {"BOOLEAN", "TINYINT", "SMALLINT", "INTEGER", "BIGINT", "UTINYINT",
     "USMALLINT", "UINTEGER", "UBIGINT", "FLOAT", "DOUBLE", "VARCHAR", "BLOB",
     "DATE", "TIME", "TIMESTAMP", "INTERVAL", "HUGEINT", "UHUGEINT", "LIST",
     "ARRAY", "STRUCT", "MAP", "UNION", "DECIMAL", "ENUM", "UUID", "BIT",
     "TIME_TZ", "TIMESTAMP_S", "TIMESTAMP_MS", "TIMESTAMP_NS", "TIMESTAMP_TZ"}

\* identifiers of the engine that no switch of the file names
UnmappedTypes == {"INVALID", "ANY", "VARINT", "SQLNULL"}

TypeIds == MappedTypes \cup UnmappedTypes

\* (intN_t)v and (uintN_t)v; a cast to a type at least as wide as the
\* machine word changes nothing
CastSigned(v, bits) ==
    IF bits >= WordBits THEN v
    ELSE LET m == Pow(2, bits)
             u == ((v % m) + m) % m
         IN IF u >= m \div 2 THEN u - m ELSE u

CastUnsigned(v, bits) ==
    IF bits >= WordBits THEN v
    ELSE LET m == Pow(2, bits) IN ((v % m) + m) % m

\* strtoul / strtoull: as strtoll on the magnitude, clamped to ULLONG_MAX,
\* a leading minus negating modulo 2^w
StrToULL(str) ==
    LET neg == str # <<>> /\ Head(str) = "-"
        signed == str # <<>> /\ Head(str) \in {"-", "+"}
        body == IF signed THEN Tail(str) ELSE str
        p == DigitsSat(body, 0, ULLONG_MAX)
        mag == IF p.mag > ULLONG_MAX THEN ULLONG_MAX ELSE p.mag
    IN IF body = <<>> \/ ~IsDigit(Head(body)) THEN 0
       ELSE IF neg THEN (WordMod - mag) % WordMod ELSE mag

IsPrefix(p, s) == Len(s) >= Len(p) /\ SubSeq(s, 1, Len(p)) = p

RECURSIVE DigitRun(_, _, _)
DigitRun(s, acc, n) ==
    IF s = <<>> \/ ~IsDigit(Head(s)) THEN [mag |-> acc, len |-> n, rest |-> s]
    ELSE DigitRun(Tail(s), acc * 10 + DigitVal(Head(s)), n + 1)

\* strtod / strtof on the texts the engine prints for floating point
\* values: [-]nan, [-]inf, and [-]digits[.digits]
StrToD(str) ==
    LET neg == str # <<>> /\ Head(str) = "-"
        signed == str # <<>> /\ Head(str) \in {"-", "+"}
        body == IF signed THEN Tail(str) ELSE str
        ip == DigitRun(body, 0, 0)
        fp == IF ip.rest # <<>> /\ Head(ip.rest) = "."
              THEN DigitRun(Tail(ip.rest), 0, 0)
              ELSE [mag |-> 0, len |-> 0, rest |-> ip.rest]
        den == Pow(10, fp.len)
        num == ip.mag * den + fp.mag
    IN IF IsPrefix(Literal_nan, body) THEN DNaN
       ELSE IF IsPrefix(Literal_inf, body) THEN (IF neg THEN DNegInf ELSE DPosInf)
       ELSE DFin(IF neg THEN -num ELSE num, den)

---------------------------------------------------------------------------
(* Engine values of the chunk API: logical types and vectors.  The fields *)
(* of a vector are compared in the order column_type, has_data, data, ... *)

Scalar(id) == [id |-> id]
DecimalType(internal, scale) ==
    [id |-> "DECIMAL", internal |-> internal, scale |-> scale,
     width |-> CASE internal = "SMALLINT" -> 4 [] internal = "INTEGER" -> 9
                 [] internal = "BIGINT" -> 18 [] OTHER -> 38]
ListType(child) == [id |-> "LIST", child |-> child]
ArrayType(child, size) == [id |-> "ARRAY", child |-> child, size |-> size]
StructType(names, types) == [id |-> "STRUCT", names |-> names, types |-> types]
MapType(key, value) == [id |-> "MAP", key |-> key, value |-> value]
EnumType(internal, dict) == [id |-> "ENUM", internal |-> internal, dict |-> dict]

\* a flat vector of a primitive type
Vec(column_type, data, validity) ==
    [column_type |-> column_type, has_data |-> TRUE, data |-> data, validity |-> validity,
     child |-> <<>>, children |-> <<>>]
\* a LIST / ARRAY / MAP vector: data holds the (offset, length) entries
Nested(column_type, data, validity, child) ==
    [column_type |-> column_type, has_data |-> TRUE, data |-> data, validity |-> validity,
     child |-> <<child>>, children |-> <<>>]
\* a STRUCT vector: no data array of its own
StructVec(column_type, validity, children) ==
    [column_type |-> column_type, has_data |-> FALSE, data |-> <<>>, validity |-> validity,
     child |-> <<>>, children |-> children]

\* a duckdb_string_t: its declared length and the memory its data pointer
\* leads to, the bytes of the string followed by whatever lies after them
String_t(bytes, after) == [length |-> Len(bytes), data |-> bytes \o after]

Chunk1(vector) == [cols |-> <<vector>>, size |-> 1]

---------------------------------------------------------------------------
(* Row materializer: the engine's per-cell accessors.  A cell of the      *)
(* materialized result is [null, str, blob]: whether it is SQL NULL, the  *)
(* text the engine's string conversion gives for it, and its blob bytes.  *)

duckdb_row_count(res) == Len(res.rows)
duckdb_column_count(res) == Len(res.cols)
duckdb_column_type(res, c) == res.cols[c]
duckdb_value_is_null(res, c, r) == res.rows[r][c].null
\* NULL for a NULL cell, otherwise a malloc'ed copy of the cell's text
duckdb_value_varchar(res, c, r) ==
    IF res.rows[r][c].null THEN NULLPTR ELSE res.rows[r][c].str
duckdb_value_blob(res, c, r) ==
    IF res.rows[r][c].null THEN [data |-> NULLPTR, size |-> 0]
    ELSE [data |-> res.rows[r][c].blob, size |-> Len(res.rows[r][c].blob)]

strlen(str) == Len(str)

Text_timestamp_extraction_failed ==
    <<"<", "t", "i", "m", "e", "s", "t", "a", "m", "p", "_", "e", "x", "t", "r", "a", "c", "t", "i", "o", "n", "_", "f", "a", "i", "l", "e", "d", ">">>
Text_regular_api_enum_limitation ==
    <<"<", "r", "e", "g", "u", "l", "a", "r", "_", "a", "p", "i", "_", "e", "n", "u", "m", "_", "l", "i", "m", "i", "t", "a", "t", "i", "o", "n", ">">>
Text_unsupported_list_type ==
    <<"<", "u", "n", "s", "u", "p", "p", "o", "r", "t", "e", "d", "_", "l", "i", "s", "t", "_", "t", "y", "p", "e", ">">>
Text_unsupported_struct_type ==
    <<"<", "u", "n", "s", "u", "p", "p", "o", "r", "t", "e", "d", "_", "s", "t", "r", "u", "c", "t", "_", "t", "y", "p", "e", ">">>
Text_unsupported_map_type ==
    <<"<", "u", "n", "s", "u", "p", "p", "o", "r", "t", "e", "d", "_", "m", "a", "p", "_", "t", "y", "p", "e", ">">>
Text_unsupported_array_type ==
    <<"<", "u", "n", "s", "u", "p", "p", "o", "r", "t", "e", "d", "_", "a", "r", "r", "a", "y", "_", "t", "y", "p", "e", ">">>

\* if (*endptr == '\0' && val != LLONG_MAX && val != LLONG_MIN) integer,
\* else the text itself
hugeint_to_elixir_integer_via_varchar(str) ==
    IF str = NULLPTR THEN atom_nil
    ELSE LET p == StrToLL(str)
         IN IF p.rest = <<>> /\ p.val # LLONG_MAX /\ p.val # LLONG_MIN
            THEN enif_make_int64(p.val)
            ELSE enif_make_binary(str)

\* the branch shared by UUID, DECIMAL, DATE, TIME, INTERVAL, TIME_TZ, BIT,
\* UHUGEINT, UNION and default:
\* str != NULL && strlen(str) > 0 && strcmp(str, "NULL") != 0
VarcharOrNil(str) ==
    IF str # NULLPTR /\ strlen(str) > 0 /\ str # Literal_NULL
    THEN enif_make_binary(str)
    ELSE atom_nil

\* TIMESTAMP*, LIST, STRUCT, MAP, ARRAY: NULL test again, then the text or
\* a placeholder
VarcharOrPlaceholder(is_null, str, placeholder) ==
    IF is_null THEN atom_nil
    ELSE IF str # NULLPTR /\ strlen(str) > 0 /\ str # Literal_NULL
         THEN enif_make_binary(str)
         ELSE enif_make_binary(placeholder)

\* ENUM: the text, else nil for a NULL cell, else a placeholder
RowEnum(is_null, str) ==
    IF str # NULLPTR /\ strlen(str) > 0 /\ str # Literal_NULL
    THEN enif_make_binary(str)
    ELSE IF is_null THEN atom_nil
         ELSE enif_make_binary(Text_regular_api_enum_limitation)

RowBoolean(str) ==
    IF str # NULLPTR
    THEN (IF str = Literal_true \/ str = Literal_1
          THEN enif_make_atom("true") ELSE enif_make_atom("false"))
    ELSE atom_nil

RowSigned(str, bits) ==
    IF str # NULLPTR THEN enif_make_int(CastSigned(StrToLL(str).val, bits))
    ELSE atom_nil

RowUnsigned(str, bits) ==
    IF str # NULLPTR THEN enif_make_uint(CastUnsigned(StrToULL(str), bits))
    ELSE atom_nil

\* FLOAT and DOUBLE: strtof / strtod, then isnan / isinf
RowFloat(str) ==
    IF str # NULLPTR
    THEN LET val == StrToD(str)
         IN IF isnan(val) THEN enif_make_atom("nan")
            ELSE IF isinf(val)
                 THEN (IF val.cls = "pinf" THEN enif_make_atom("infinity")
                       ELSE enif_make_atom("negative_infinity"))
                 ELSE enif_make_double(val)
    ELSE atom_nil

RowBlob(blob) ==
    IF blob.data # NULLPTR /\ blob.size > 0
    THEN enif_make_binary(blob.data)
    ELSE enif_make_binary(<<>>)

RowVarchar(str) ==
    IF str # NULLPTR THEN enif_make_binary(str) ELSE atom_nil

\* the switch of result_rows_nif on the column type, for a cell whose NULL
\* test came out false
RowSwitch(res, type, c, r) ==
    LET str == duckdb_value_varchar(res, c, r)
        is_null == duckdb_value_is_null(res, c, r)
    IN CASE type = "BOOLEAN" -> RowBoolean(str)
         [] type = "TINYINT" -> RowSigned(str, 8)
         [] type = "SMALLINT" -> RowSigned(str, 16)
         [] type = "INTEGER" -> RowSigned(str, 32)
         [] type = "BIGINT" -> RowSigned(str, 64)
         [] type = "UTINYINT" -> RowUnsigned(str, 8)
         [] type = "USMALLINT" -> RowUnsigned(str, 16)
         [] type = "UINTEGER" -> RowUnsigned(str, 32)
         [] type = "UBIGINT" -> RowUnsigned(str, 64)
         [] type = "DECIMAL" -> VarcharOrNil(str)
         [] type \in {"TIMESTAMP", "TIMESTAMP_S", "TIMESTAMP_MS", "TIMESTAMP_NS",
                      "TIMESTAMP_TZ"} ->
                VarcharOrPlaceholder(is_null, str, Text_timestamp_extraction_failed)
         [] type = "HUGEINT" -> hugeint_to_elixir_integer_via_varchar(str)
         [] type \in {"FLOAT", "DOUBLE"} -> RowFloat(str)
         [] type \in {"DATE", "TIME", "INTERVAL"} -> VarcharOrNil(str)
         [] type = "BLOB" -> RowBlob(duckdb_value_blob(res, c, r))
         [] type = "VARCHAR" -> RowVarchar(str)
         [] type \in {"TIME_TZ", "BIT", "UHUGEINT"} -> VarcharOrNil(str)
         [] type = "ENUM" -> RowEnum(is_null, str)
         [] type = "LIST" -> VarcharOrPlaceholder(is_null, str, Text_unsupported_list_type)
         [] type = "STRUCT" -> VarcharOrPlaceholder(is_null, str, Text_unsupported_struct_type)
         [] type = "MAP" -> VarcharOrPlaceholder(is_null, str, Text_unsupported_map_type)
         [] type = "ARRAY" -> VarcharOrPlaceholder(is_null, str, Text_unsupported_array_type)
         [] type = "UNION" -> VarcharOrNil(str)
         [] OTHER -> VarcharOrNil(str)

\* one cell of the normal path: NULL test first, then UUID (reached only
\* for a single-column result), then the switch
RowCell(res, c, r) ==
    LET type == duckdb_column_type(res, c)
    IN IF duckdb_value_is_null(res, c, r) THEN atom_nil
       ELSE IF type = "UUID" THEN VarcharOrNil(duckdb_value_varchar(res, c, r))
       ELSE RowSwitch(res, type, c, r)

\* bool has_uuid: the scan of the column types before any row
HasUuid(res) ==
    \E c \in 1..duckdb_column_count(res) : duckdb_column_type(res, c) = "UUID"

\* the short-circuit without its column_count test
UuidWorkaround_AnyColumnCount(res) == HasUuid(res)

\* if (has_uuid && column_count > 1)
UuidWorkaround(res) == HasUuid(res) /\ duckdb_column_count(res) > 1

RowValues(res, r) ==
    IF UuidWorkaround(res)
    THEN [c \in 1..duckdb_column_count(res) |-> atom_nil]
    ELSE [c \in 1..duckdb_column_count(res) |-> RowCell(res, c, r)]

\* result_rows_nif: rows and every row_values array come from enif_alloc
\* and are written without a NULL check
ResultRows(res, heap) ==
    LET row_count == duckdb_row_count(res)
        column_count == duckdb_column_count(res)
    IN IF row_count > 0 /\ ( ~AllocOK(heap, row_count)
                             \/ (column_count > 0 /\ ~AllocOK(heap, column_count)) )
       THEN Segfault
       ELSE enif_make_list_from_array(
                [r \in 1..row_count |->
                    enif_make_tuple_from_array(RowValues(res, r))])

\* the engine accessors the normal path invokes for one cell: the NULL test
\* first, then for a non-NULL cell duckdb_value_blob (BLOB) or
\* duckdb_value_varchar (UUID and every other case of the switch, HUGEINT
\* through its helper); the second NULL test of some cases is the same call
CellAccessors(res, c, r) ==
    {[fn |-> "duckdb_value_is_null", col |-> c, row |-> r]}
    \cup (IF duckdb_value_is_null(res, c, r) THEN {}
          ELSE IF duckdb_column_type(res, c) = "BLOB"
               THEN {[fn |-> "duckdb_value_blob", col |-> c, row |-> r]}
               ELSE {[fn |-> "duckdb_value_varchar", col |-> c, row |-> r]})

\* the row loop with the short-circuit taken cell by cell: the other
\* columns of a UUID result are still read
RowAccessors_PerCell(res, r) ==
    UNION {IF duckdb_column_type(res, c) = "UUID" /\ duckdb_column_count(res) > 1
           THEN {} ELSE CellAccessors(res, c, r) : c \in 1..duckdb_column_count(res)}

\* one iteration of the row loop: the nil fill reads nothing, the normal
\* path reads every cell
RowAccessors(res, r) ==
    IF UuidWorkaround(res) THEN {}
    ELSE UNION {CellAccessors(res, c, r) : c \in 1..duckdb_column_count(res)}

\* the accessors invoked by result_rows_nif; when an array could not be
\* allocated the call stops at the first write through the NULL pointer:
\* row_values[0] after the first cell was read, or rows[0] after the
\* first row was read
ResultRowsAccessors(res, heap) ==
    LET row_count == duckdb_row_count(res)
        column_count == duckdb_column_count(res)
    IN IF row_count > 0 /\ column_count > 0 /\ ~AllocOK(heap, column_count)
       THEN IF UuidWorkaround(res) THEN {} ELSE CellAccessors(res, 1, 1)
       ELSE IF row_count > 0 /\ ~AllocOK(heap, row_count)
       THEN RowAccessors(res, 1)
       ELSE UNION {RowAccessors(res, r) : r \in 1..row_count}

---------------------------------------------------------------------------
(* The results the row materializer is run on *)

Text_ab == <<"a", "b">>
Blob_with_nul == <<"a", "\\0", "b">>

\* a 128-bit signed integer as the engine prints it
HugeMod == WordMod * WordMod
HugeintValues == (-(HugeMod \div 2))..((HugeMod \div 2) - 1)

\* the texts the engine's string conversion can give for a non-NULL cell
StrForms(type) ==
    CASE type = "BOOLEAN" -> {Literal_true, <<"f", "a", "l", "s", "e">>}
      [] type \in {"TINYINT", "SMALLINT", "INTEGER"} -> {FormatD(-1), FormatD(5)}
      [] type = "BIGINT" -> {FormatD(LLONG_MIN), FormatD(0), FormatD(LLONG_MAX)}
      [] type \in {"UTINYINT", "USMALLINT", "UINTEGER"} -> {FormatU(0), FormatU(5)}
      [] type = "UBIGINT" -> {FormatU(0), FormatU(ULLONG_MAX)}
      [] type = "HUGEINT" -> {FormatD(v) : v \in HugeintValues}
      [] type = "UHUGEINT" -> {FormatU(0), FormatU(HugeMod - 1)}
      [] type \in {"FLOAT", "DOUBLE"} ->
            {Literal_nan, Literal_inf, <<"-", "i", "n", "f">>, <<"1", ".", "5">>, <<"-", "2", ".", "0">>}
      [] type = "DECIMAL" -> {<<"1", ".", "5", "0">>}
      [] type = "DATE" -> {<<"2", "0", "2", "4", "-", "0", "1", "-", "0", "2">>}
      [] type = "TIME" -> {<<"0", "3", ":", "0", "4", ":", "0", "5">>}
      [] type = "TIME_TZ" -> {<<"0", "3", ":", "0", "4", ":", "0", "5", "+", "0", "1">>}
      [] type \in {"TIMESTAMP", "TIMESTAMP_S", "TIMESTAMP_MS", "TIMESTAMP_NS",
                   "TIMESTAMP_TZ"} -> {<<"2", "0", "2", "4", "-", "0", "1", "-", "0", "2", " ", "0", "3", ":", "0", "4", ":", "0", "5">>}
      [] type = "INTERVAL" -> {<<"1", " ", "d", "a", "y">>}
      [] type = "UUID" -> {<<"0", "0", "0", "0", "0", "0", "0", "0", "-", "0", "0", "0", "0", "-", "0", "0", "0", "0", "-", "0", "0", "0", "0", "-", "0", "0", "0", "0", "0", "0", "0", "0", "0", "0", "0", "0">>, <<"f", "f", "f", "f", "f", "f", "f", "f", "-", "f", "f", "f", "f", "-", "f", "f", "f", "f", "-", "f", "f", "f", "f", "-", "f", "f", "f", "f", "f", "f", "f", "f", "f", "f", "f", "f">>}
      [] type = "BIT" -> {<<"1", "0", "1">>}
      [] type = "LIST" -> {<<"[", "1", ",", " ", "2", "]">>}
      [] type = "ARRAY" -> {<<"[", "1", ",", " ", "2", "]">>}
      [] type = "STRUCT" -> {<<"{", "'", "a", "'", ":", " ", "5", "}">>}
      [] type = "MAP" -> {<<"{", "k", "=", "1", "}">>}
      \* free text: a string, a union holding a string, an enum label
      [] type \in {"VARCHAR", "UNION"} -> {<<>>, Literal_NULL, Text_ab}
      [] type = "ENUM" -> {Literal_NULL, Text_ab}
      [] type = "BLOB" -> {<<>>, Text_ab}
      [] OTHER -> {Text_ab}

BlobForms(type) == IF type = "BLOB" THEN {<<>>, Blob_with_nul} ELSE {<<>>}

NullCell == [null |-> TRUE, str |-> <<>>, blob |-> <<>>]

Cells(type) ==
    {NullCell} \cup
    {[null |-> FALSE, str |-> s, blob |-> b] : s \in StrForms(type), b \in BlobForms(type)}

\* every type, one column, one row, every cell of the type
ScalarResults ==
    UNION { {[cols |-> <<t>>, rows |-> <<<<cell>>>>] : cell \in Cells(t)} : t \in TypeIds }

\* tables of several columns and rows over a few types
TableTypes == {"UUID", "BIGINT", "UNION"}
TableCell(type) ==
    [null |-> FALSE, str |-> CHOOSE s \in StrForms(type) : s # <<>>, blob |-> <<>>]

\* at most one cell of a table is NULL
TableResults ==
    UNION { UNION { UNION {
        { [cols |-> cols,
           rows |-> [r \in 1..nr |-> [c \in 1..nc |->
                        IF nullAt = <<r, c>> THEN NullCell ELSE TableCell(cols[c])]]]
          : nullAt \in {<<0, 0>>} \cup ((1..nr) \X (1..nc)) }
        : cols \in [1..nc -> TableTypes] }
        : nr \in 0..MaxRows }
        : nc \in 1..MaxCols }

HeapSizes == {1, HeapAmple}

NoResult == [cols |-> <<>>, rows |-> <<>>]
NoSqlText == [query |-> <<>>, prepare |-> <<>>]
NoConn == [open |-> FALSE, in_transaction |-> FALSE]
NoStmt == [prepared |-> FALSE, nparams |-> 0, binds |-> <<>>, executions |-> 0]
NoChunk == [cols |-> <<>>, size |-> 0]
NoAppender ==
    [ptr |-> "none", column_count |-> 0, row |-> <<>>, rows |-> <<>>,
     closed |-> FALSE, after_close |-> "accepts", error |-> NULLPTR]

InitRows ==
    /\ result \in ScalarResults \cup TableResults
    /\ heapFree \in HeapSizes
    /\ rowsOut = Pending
    /\ columnsOut = Pending
    /\ chunk = NoChunk
    /\ chunkOut = Pending
    /\ getChunkOut = Pending
    /\ chunkResources = <<>>
    /\ appender = NoAppender
    /\ appenderCalls = <<>>
    /\ appendOut = Pending
    /\ appenderTable = <<>>
    /\ appenderFrees = <<>>
    /\ opsLeft = 0
    /\ callerValues = {}
    /\ opOut = Pending
    /\ rowsCalls = {}
    /\ calls = <<>>
    /\ sql_buffer = NoSqlText
    /\ stmt = NoStmt
    /\ execOut = Pending
    /\ conn = NoConn
    /\ txnOut = Pending

result_rows_nif ==
    /\ result # NoResult
    /\ rowsOut = Pending
    /\ rowsOut' = ResultRows(result, heapFree)
    /\ rowsCalls' = ResultRowsAccessors(result, heapFree)
    /\ UNCHANGED <<result, heapFree, columnsOut, chunk, chunkOut, getChunkOut, chunkResources, appender, appenderCalls, appendOut, appenderTable, appenderFrees, opsLeft, callerValues, opOut, calls, sql_buffer, stmt, execOut, conn, txnOut>>

---------------------------------------------------------------------------
(* Chunk materializer.  A duckdb_vector is                                *)
(*   [column_type, has_data, data, validity, child, children]:            *)
(* its logical type, whether duckdb_vector_get_data is non-NULL, the data *)
(* array, the validity bitmap (NoValidity for a NULL bitmap pointer, when *)
(* every row is valid), the child vector of a LIST / ARRAY / MAP (in a    *)
(* one-element sequence, empty for a NULL child) and the children of a    *)
(* STRUCT.  Row indexes are 0-based as in the code.                       *)
(* A logical type is a record with its id and, by id, width / scale /     *)
(* internal (DECIMAL), internal / dict (ENUM), child (LIST), child / size *)
(* (ARRAY), names / types (STRUCT), key / value (MAP).                    *)

NoValidity == <<>>

duckdb_get_type_id(logical_type) == logical_type.id
duckdb_validity_row_is_valid(validity, row_idx) == validity[row_idx + 1]
At(data, row_idx) == data[row_idx + 1]

\* an atom whose name is printed from a prefix and the numeric type id
enif_make_atom_fmt(prefix, type_id) == [k |-> "atom", v |-> prefix, id |-> type_id]

\* enif_make_map_from_arrays: false if there are duplicate keys
enif_make_map_from_arrays(keys, values) ==
    IF \E i, j \in 1..Len(keys) : i # j /\ keys[i] = keys[j]
    THEN [ok |-> FALSE]
    ELSE [ok |-> TRUE,
          map |-> [k |-> "map", v |-> [i \in 1..Len(keys) |-> <<keys[i], values[i]>>]]]

enif_make_new_map == [k |-> "map", v |-> <<>>]

\* the engine's duckdb_column_name: the name of column c of a result
duckdb_column_name(res, c) == <<"c">> \o FormatU(c)

\* the type tag mapper with TIMESTAMP_TZ given the tag of TIMESTAMP
duckdb_type_to_atom_SharedTag(type) ==
    IF type \in {"TIMESTAMP", "TIMESTAMP_TZ"} THEN enif_make_atom("timestamp")
    ELSE IF type \in MappedTypes THEN enif_make_atom(type)
    ELSE enif_make_atom("unknown")

\* duckdb_type_to_atom: the switch over the engine's type ids, each case
\* returning the atom made at load time, the default atom_unknown
duckdb_type_to_atom(type) ==
    CASE type = "BOOLEAN" -> enif_make_atom("boolean")
      [] type = "TINYINT" -> enif_make_atom("tinyint")
      [] type = "SMALLINT" -> enif_make_atom("smallint")
      [] type = "INTEGER" -> enif_make_atom("integer")
      [] type = "BIGINT" -> enif_make_atom("bigint")
      [] type = "UTINYINT" -> enif_make_atom("utinyint")
      [] type = "USMALLINT" -> enif_make_atom("usmallint")
      [] type = "UINTEGER" -> enif_make_atom("uinteger")
      [] type = "UBIGINT" -> enif_make_atom("ubigint")
      [] type = "FLOAT" -> enif_make_atom("float")
      [] type = "DOUBLE" -> enif_make_atom("double")
      [] type = "VARCHAR" -> enif_make_atom("varchar")
      [] type = "BLOB" -> enif_make_atom("blob")
      [] type = "DATE" -> enif_make_atom("date")
      [] type = "TIME" -> enif_make_atom("time")
      [] type = "TIMESTAMP" -> enif_make_atom("timestamp")
      [] type = "INTERVAL" -> enif_make_atom("interval")
      [] type = "HUGEINT" -> enif_make_atom("hugeint")
      [] type = "UHUGEINT" -> enif_make_atom("uhugeint")
      [] type = "LIST" -> enif_make_atom("list")
      [] type = "ARRAY" -> enif_make_atom("array")
      [] type = "STRUCT" -> enif_make_atom("struct")
      [] type = "MAP" -> enif_make_atom("map")
      [] type = "UNION" -> enif_make_atom("union")
      [] type = "DECIMAL" -> enif_make_atom("decimal")
      [] type = "ENUM" -> enif_make_atom("enum")
      [] type = "UUID" -> enif_make_atom("uuid")
      [] type = "BIT" -> enif_make_atom("bit")
      [] type = "TIME_TZ" -> enif_make_atom("time_tz")
      [] type = "TIMESTAMP_S" -> enif_make_atom("timestamp_s")
      [] type = "TIMESTAMP_MS" -> enif_make_atom("timestamp_ms")
      [] type = "TIMESTAMP_NS" -> enif_make_atom("timestamp_ns")
      [] type = "TIMESTAMP_TZ" -> enif_make_atom("timestamp_tz")
      [] OTHER -> enif_make_atom("unknown")

\* result_columns_nif: one map {name, type} per column; columns comes from
\* enif_alloc and is written without a NULL check
ResultColumns(res, heap) ==
    LET column_count == duckdb_column_count(res)
    IN IF column_count > 0 /\ ~AllocOK(heap, column_count) THEN Segfault
       ELSE enif_make_list_from_array(
                [c \in 1..column_count |->
                    enif_make_map_from_arrays(
                        <<enif_make_atom("name"), enif_make_atom("type")>>,
                        <<enif_make_binary(duckdb_column_name(res, c)),
                          duckdb_type_to_atom(duckdb_column_type(res, c))>>).map])

result_columns_nif ==
    /\ result # NoResult
    /\ columnsOut = Pending
    /\ columnsOut' = ResultColumns(result, heapFree)
    /\ UNCHANGED <<result, heapFree, rowsOut, chunk, chunkOut, getChunkOut, chunkResources, appender, appenderCalls, appendOut, appenderTable, appenderFrees, opsLeft, callerValues, opOut, rowsCalls, calls, sql_buffer, stmt, execOut, conn, txnOut>>

\* make_error / make_ok: {error, <<message>>} and {ok, term}
make_error(error_msg) ==
    enif_make_tuple_from_array(<<enif_make_atom("error"), enif_make_binary(error_msg)>>)
make_ok(term) == enif_make_tuple_from_array(<<enif_make_atom("ok"), term>>)

\* enif_get_ulong: fails unless the term is an integer of 0..ULONG_MAX
enif_get_ulong(term) ==
    IF term.k = "int" /\ term.v >= 0 /\ term.v <= ULLONG_MAX
    THEN [ok |-> TRUE, value |-> term.v] ELSE [ok |-> FALSE]

\* the engine's chunks of a materialized result: VectorSize rows each, the
\* last one shorter; duckdb_result_get_chunk gives NULL out of bounds
duckdb_result_chunk_count(res) == (Len(res.rows) + VectorSize - 1) \div VectorSize
NullDataChunk == [cols |-> <<>>, first |-> 0, size |-> 0]
duckdb_result_get_chunk(res, chunk_index) ==
    IF chunk_index >= duckdb_result_chunk_count(res) THEN NullDataChunk
    ELSE [cols |-> res.cols,
          first |-> chunk_index * VectorSize,
          size |-> IF (chunk_index + 1) * VectorSize <= Len(res.rows) THEN VectorSize
                   ELSE Len(res.rows) - chunk_index * VectorSize]

\* result_get_chunk_nif: the term returned and the DataChunkResources
\* allocated; the pointer from enif_alloc_resource is written unchecked
ResultGetChunk(res, index, heap) ==
    LET chunk_index == enif_get_ulong(index)
        data_chunk == duckdb_result_get_chunk(res, chunk_index.value)
    IN IF ~chunk_index.ok THEN [term |-> Badarg, allocated |-> <<>>]
       ELSE IF data_chunk = NullDataChunk
       THEN [term |-> make_error(<<"I", "n", "v", "a", "l", "i", "d", " ", "c", "h", "u", "n", "k", " ", "i", "n", "d", "e", "x", " ", "o", "r", " ", "n", "o", " ", "c", "h", "u", "n", "k", " ", "a", "v", "a", "i", "l", "a", "b", "l", "e">>),
             allocated |-> <<>>]
       ELSE IF ~AllocOK(heap, 1) THEN [term |-> Segfault, allocated |-> <<>>]
       ELSE [term |-> make_ok([k |-> "resource", chunk |-> data_chunk]),
             allocated |-> <<data_chunk>>]

\* the integers a caller passes as chunk index
ChunkIndexes == {-1, 0, 1, 2, WordMod}

result_get_chunk_nif ==
    /\ result # NoResult
    /\ getChunkOut = Pending
    /\ \E index \in ChunkIndexes :
        LET call == ResultGetChunk(result, enif_make_int64(index), heapFree)
        IN /\ getChunkOut' = [k |-> "returned", index |-> index, term |-> call.term]
           /\ chunkResources' = chunkResources \o call.allocated
    /\ UNCHANGED <<result, heapFree, rowsOut, columnsOut, chunk, chunkOut, appender, appenderCalls, appendOut, appenderTable, appenderFrees, opsLeft, callerValues, opOut, rowsCalls, calls, sql_buffer, stmt, execOut, conn, txnOut>>

IsSegfault(term) == term = Segfault
AnySegfault(terms) == \E i \in 1..Len(terms) : IsSegfault(terms[i])
IsBadarg(term) == term = Badarg
AnyBadarg(terms) == \E i \in 1..Len(terms) : IsBadarg(terms[i])

\* value = upper * 2^64 + lower of a duckdb_hugeint (upper signed) or a
\* duckdb_uhugeint (upper unsigned)
HugeValue(value) == value.upper * WordMod + value.lower

\* the HUGEINT case with the low word printed as a signed number
ExtractHugeint_SignedLower(value) ==
    IF value.upper = 0 /\ value.lower <= LLONG_MAX
    THEN enif_make_int64(ToInt64(value.lower))
    ELSE IF value.upper = -1 /\ value.lower >= LLONG_MAX + 1
    THEN enif_make_int64(ToInt64(value.lower))
    ELSE enif_make_binary(<<"h", "u", "g", "e", "i", "n", "t", ":">>
                          \o FormatD(value.upper) \o <<":">>
                          \o FormatD(ToInt64(value.lower)))

\* the HUGEINT case with the native branch taken on the high word alone
ExtractHugeint_UpperOnly(value) ==
    IF value.upper = 0 \/ value.upper = -1
    THEN enif_make_int64(ToInt64(value.lower))
    ELSE enif_make_binary(<<"h", "u", "g", "e", "i", "n", "t", ":">>
                          \o FormatD(value.upper) \o <<":">> \o FormatU(value.lower))

\* case DUCKDB_TYPE_HUGEINT
ExtractHugeint(value) ==
    IF value.upper = 0 /\ value.lower <= LLONG_MAX
    THEN enif_make_int64(ToInt64(value.lower))
    ELSE IF value.upper = -1 /\ value.lower >= LLONG_MAX + 1
    THEN enif_make_int64(ToInt64(value.lower))
    ELSE \* "hugeint:%lld:%llu"
         enif_make_binary(<<"h", "u", "g", "e", "i", "n", "t", ":">>
                          \o FormatD(value.upper) \o <<":">> \o FormatU(value.lower))

\* case DUCKDB_TYPE_UHUGEINT: "%llu", or "%llu%016llx" when upper != 0
HexFieldWidth == WordBits \div 4
ExtractUhugeint(value) ==
    IF value.upper = 0
    THEN enif_make_binary(FormatU(value.lower))
    ELSE enif_make_binary(FormatU(value.upper) \o FormatX0(value.lower, HexFieldWidth))

RECURSIVE StripTrailingZeros(_)
StripTrailingZeros(s) ==
    IF s # <<>> /\ s[Len(s)] = "0" THEN StripTrailingZeros(SubSeq(s, 1, Len(s) - 1))
    ELSE s

\* "%.10g" of a finite double num / 10^n of at most 10 significant digits
\* and magnitude at least 1e-4 (or zero): fixed notation, trailing zeros
\* and a bare point removed
FormatG10(d) ==
    LET mag == IF d.num < 0 THEN -d.num ELSE d.num
        fracLen == Len(FormatU(d.den)) - 1
        frac == StripTrailingZeros(ZeroPad(FormatU(mag % d.den), fracLen))
    IN (IF d.num < 0 THEN <<"-">> ELSE <<>>)
       \o FormatU(mag \div d.den)
       \o (IF frac = <<>> THEN <<>> ELSE <<".">> \o frac)

\* the engine's duckdb_decimal_to_double
duckdb_decimal_to_double(width, scale, value) == DFin(HugeValue(value), Pow(10, scale))

Text_unsupported_decimal_internal_type ==
    <<"u", "n", "s", "u", "p", "p", "o", "r", "t", "e", "d", "_", "d", "e", "c", "i", "m", "a", "l", "_", "i", "n", "t", "e", "r", "n", "a", "l", "_", "t", "y", "p", "e", "_">>

\* case DUCKDB_TYPE_DECIMAL
ExtractDecimal(logical_type, cell) ==
    LET scale == logical_type.scale
        internal_type == logical_type.internal
    IN IF internal_type = "HUGEINT"
       THEN enif_make_binary(
                FormatG10(duckdb_decimal_to_double(logical_type.width, scale, cell)))
       ELSE IF internal_type \notin {"SMALLINT", "INTEGER", "BIGINT"}
       THEN \* "unsupported_decimal_internal_type_%d"
            enif_make_binary(Text_unsupported_decimal_internal_type \o <<internal_type>>)
       ELSE IF scale = 0
       THEN enif_make_long(cell)
       ELSE enif_make_double(DFin(cell, Pow(10, scale)))

\* "%0<width>d" of a non-negative field
FormatD0(n, width) == ZeroPad(FormatU(n), width)

\* case DUCKDB_TYPE_DATE: "%04d-%02d-%02d" of duckdb_from_date
ExtractDate(d) ==
    enif_make_binary(FormatD0(d.year, 4) \o <<"-">> \o FormatD0(d.month, 2)
                     \o <<"-">> \o FormatD0(d.day, 2))

\* case DUCKDB_TYPE_TIME: "%02d:%02d:%02d.%06d" of duckdb_from_time
ExtractTime(t) ==
    enif_make_binary(FormatD0(t.hour, 2) \o <<":">> \o FormatD0(t.min, 2) \o <<":">>
                     \o FormatD0(t.sec, 2) \o <<".">> \o FormatD0(t.micros, 6))

\* case DUCKDB_TYPE_TIMESTAMP: date, a space, time
ExtractTimestamp(ts) ==
    enif_make_binary(ExtractDate(ts.date).v \o <<" ">> \o ExtractTime(ts.time).v)

\* the engine's duckdb_from_time_tz: a duckdb_time_tz (microseconds since
\* midnight and UTC offset in seconds) as a duckdb_time_tz_struct, whose
\* time is a duckdb_time_struct {hour, min, sec, micros} with micros the
\* microseconds within the second
duckdb_from_time_tz(time) ==
    [time |-> [hour |-> (time.micros \div 60000000) \div 60,
               min |-> (time.micros \div 60000000) % 60,
               sec |-> (time.micros \div 1000000) % 60,
               micros |-> time.micros % 1000000],
     offset |-> time.offset]

\* case DUCKDB_TYPE_TIME_TZ: {decomposed.time.micros, decomposed.offset}
ExtractTimeTz(time) ==
    LET decomposed == duckdb_from_time_tz(time)
    IN enif_make_tuple_from_array(<<enif_make_long(decomposed.time.micros),
                                    enif_make_int(decomposed.offset)>>)

\* "%04llx" of one 16-bit limb; a 64-bit word of a UUID is four limbs,
\* most significant first
Hex4(limb) == FormatX0(limb, 4)

\* the UUID case with the third group taken from the bits of the second
ExtractUuid_RepeatedGroup(uuid) ==
    enif_make_binary(Hex4(uuid.upper[1]) \o Hex4(uuid.upper[2]) \o <<"-">>
                     \o Hex4(uuid.upper[3]) \o <<"-">>
                     \o Hex4(uuid.upper[3]) \o <<"-">>
                     \o Hex4(uuid.lower[1]) \o <<"-">>
                     \o Hex4(uuid.lower[2]) \o Hex4(uuid.lower[3]) \o Hex4(uuid.lower[4]))

\* case DUCKDB_TYPE_UUID: "%08llx-%04llx-%04llx-%04llx-%012llx" of
\* (upper >> 32) & 0xFFFFFFFF, (upper >> 16) & 0xFFFF, upper & 0xFFFF,
\* (lower >> 48) & 0xFFFF, lower & 0xFFFFFFFFFFFF
ExtractUuid(uuid) ==
    enif_make_binary(Hex4(uuid.upper[1]) \o Hex4(uuid.upper[2]) \o <<"-">>
                     \o Hex4(uuid.upper[3]) \o <<"-">>
                     \o Hex4(uuid.upper[4]) \o <<"-">>
                     \o Hex4(uuid.lower[1]) \o <<"-">>
                     \o Hex4(uuid.lower[2]) \o Hex4(uuid.lower[3]) \o Hex4(uuid.lower[4]))

\* case DUCKDB_TYPE_ENUM
ExtractEnum(logical_type, cell) ==
    IF logical_type.internal \notin {"UTINYINT", "USMALLINT", "UINTEGER"}
    THEN enif_make_atom("unsupported_enum_internal_type")
    ELSE IF cell < Len(logical_type.dict) /\ logical_type.dict[cell + 1] # NULLPTR
    THEN enif_make_binary(logical_type.dict[cell + 1])
    ELSE enif_make_atom("invalid_enum_value")

\* case DUCKDB_TYPE_INTERVAL: {months, days, micros}
ExtractInterval(interval) ==
    enif_make_tuple_from_array(<<enif_make_int(interval.months),
                                 enif_make_int(interval.days),
                                 enif_make_long(interval.micros)>>)

\* the string cases copying up to the first NUL byte, as strlen would
ExtractString_Strlen(cell) ==
    enif_make_binary(
        SubSeq(cell.data, 1,
               IF \E i \in 1..Len(cell.data) : cell.data[i] = "\\0"
               THEN (CHOOSE i \in 1..Len(cell.data) :
                        /\ cell.data[i] = "\\0"
                        /\ \A j \in 1..(i - 1) : cell.data[j] # "\\0") - 1
               ELSE Len(cell.data)))

\* cases BIT, BLOB, VARCHAR: enif_alloc_binary(len) and memcpy of len =
\* duckdb_string_t_length bytes from duckdb_string_t_data
ExtractString(cell) == enif_make_binary(SubSeq(cell.data, 1, cell.length))

IsComplexType(type_id) == type_id \in {"STRUCT", "LIST", "ARRAY", "MAP"}

RECURSIVE extract_vector_value(_, _, _, _)

\* the LIST case reading the child from its start instead of entry.offset
ExtractList_NoOffset(vector, logical_type, row_idx, heap) ==
    LET entry == At(vector.data, row_idx)
        elems == [i \in 1..entry.length |->
                    extract_vector_value(vector.child[1], logical_type.child,
                                         i - 1, heap)]
    IN IF entry.length = 0 THEN enif_make_list_from_array(<<>>)
       ELSE IF vector.child = <<>> THEN enif_make_list_from_array(<<>>)
       ELSE IF ~AllocOK(heap, entry.length) THEN atom_nil
       ELSE enif_make_list_from_array(elems)

\* case DUCKDB_TYPE_LIST
ExtractList(vector, logical_type, row_idx, heap) ==
    LET entry == At(vector.data, row_idx)
        elems == [i \in 1..entry.length |->
                    extract_vector_value(vector.child[1], logical_type.child,
                                         entry.offset + (i - 1), heap)]
    IN IF entry.length = 0 THEN enif_make_list_from_array(<<>>)
       ELSE IF vector.child = <<>> THEN enif_make_list_from_array(<<>>)
       ELSE IF ~AllocOK(heap, entry.length) THEN atom_nil
       ELSE IF AnySegfault(elems) THEN Segfault
       ELSE IF AnyBadarg(elems) THEN Badarg
       ELSE enif_make_list_from_array(elems)

\* case DUCKDB_TYPE_ARRAY
ExtractArray(vector, logical_type, row_idx, heap) ==
    LET array_size == logical_type.size
        elems == [i \in 1..array_size |->
                    extract_vector_value(vector.child[1], logical_type.child,
                                         row_idx * array_size + (i - 1), heap)]
    IN IF array_size = 0 THEN enif_make_list_from_array(<<>>)
       ELSE IF vector.child = <<>> THEN enif_make_list_from_array(<<>>)
       ELSE IF ~AllocOK(heap, array_size) THEN atom_nil
       ELSE IF AnySegfault(elems) THEN Segfault
       ELSE IF AnyBadarg(elems) THEN Badarg
       ELSE enif_make_list_from_array(elems)

\* the STRUCT case reading every child at row 0 instead of row_idx
ExtractStruct_FirstRow(vector, logical_type, row_idx, heap) ==
    LET child_count == Len(logical_type.types)
        keys == [i \in 1..child_count |-> enif_make_binary(logical_type.names[i])]
        values == [i \in 1..child_count |->
                    extract_vector_value(vector.children[i], logical_type.types[i],
                                         0, heap)]
        made == enif_make_map_from_arrays(keys, values)
    IN IF child_count = 0 THEN enif_make_new_map
       ELSE IF ~AllocOK(heap, child_count) THEN atom_nil
       ELSE IF made.ok THEN made.map
       ELSE enif_make_atom("struct_conversion_failed")

\* case DUCKDB_TYPE_STRUCT
ExtractStruct(vector, logical_type, row_idx, heap) ==
    LET child_count == Len(logical_type.types)
        keys == [i \in 1..child_count |-> enif_make_binary(logical_type.names[i])]
        values == [i \in 1..child_count |->
                    extract_vector_value(vector.children[i], logical_type.types[i],
                                         row_idx, heap)]
        made == enif_make_map_from_arrays(keys, values)
    IN IF child_count = 0 THEN enif_make_new_map
       ELSE IF ~AllocOK(heap, child_count) THEN atom_nil
       ELSE IF \E i \in 1..child_count : logical_type.names[i] = NULLPTR THEN
            \* the values before the first unresolved name are extracted
            \* and dropped
            (IF \E i \in 1..child_count :
                    /\ IsSegfault(values[i])
                    /\ \A j \in 1..i : logical_type.names[j] # NULLPTR
             THEN Segfault
             ELSE IF \E i \in 1..child_count :
                        /\ IsBadarg(values[i])
                        /\ \A j \in 1..i : logical_type.names[j] # NULLPTR
             THEN Badarg ELSE atom_nil)
       ELSE IF AnySegfault(values) THEN Segfault
       ELSE IF AnyBadarg(values) THEN Badarg
       ELSE IF made.ok THEN made.map
       ELSE enif_make_atom("struct_conversion_failed")

\* case DUCKDB_TYPE_MAP: keys and values come from enif_alloc and are
\* written without a NULL check
ExtractMap(vector, logical_type, row_idx, heap) ==
    LET entry == At(vector.data, row_idx)
        child_vector == vector.child[1]
        keys == [i \in 1..entry.length |->
                    extract_vector_value(child_vector.children[1], logical_type.key,
                                         entry.offset + (i - 1), heap)]
        values == [i \in 1..entry.length |->
                    extract_vector_value(child_vector.children[2], logical_type.value,
                                         entry.offset + (i - 1), heap)]
        made == enif_make_map_from_arrays(keys, values)
    IN IF entry.length > 0 /\ ~AllocOK(heap, entry.length) THEN Segfault
       ELSE IF AnySegfault(keys) \/ AnySegfault(values) THEN Segfault
       ELSE IF AnyBadarg(keys) \/ AnyBadarg(values) THEN Badarg
       ELSE IF made.ok THEN made.map
       ELSE enif_make_atom("map_conversion_failed")

extract_vector_value(vector, logical_type, row_idx, heap) ==
    LET type_id == duckdb_get_type_id(logical_type)
        cell == At(vector.data, row_idx)
    IN IF ~IsComplexType(type_id) /\ ~vector.has_data THEN atom_nil
       ELSE IF vector.validity # NoValidity
               /\ ~duckdb_validity_row_is_valid(vector.validity, row_idx)
       THEN atom_nil
       ELSE CASE type_id = "BOOLEAN" ->
                    (IF cell THEN enif_make_atom("true") ELSE enif_make_atom("false"))
              [] type_id \in {"TINYINT", "SMALLINT", "INTEGER"} -> enif_make_int(cell)
              [] type_id = "BIGINT" -> enif_make_long(cell)
              [] type_id \in {"UTINYINT", "USMALLINT", "UINTEGER"} -> enif_make_uint(cell)
              [] type_id = "UBIGINT" -> enif_make_uint64(cell)
              [] type_id = "HUGEINT" -> ExtractHugeint(cell)
              [] type_id \in {"FLOAT", "DOUBLE"} -> enif_make_double(cell)
              [] type_id = "DECIMAL" -> ExtractDecimal(logical_type, cell)
              [] type_id = "DATE" -> ExtractDate(cell)
              [] type_id = "TIME" -> ExtractTime(cell)
              [] type_id = "TIMESTAMP" -> ExtractTimestamp(cell)
              [] type_id \in {"TIMESTAMP_S", "TIMESTAMP_MS", "TIMESTAMP_NS"} ->
                    enif_make_binary(FormatD(cell))
              [] type_id = "TIMESTAMP_TZ" -> enif_make_atom("unsupported_timestamp_tz_type")
              [] type_id = "TIME_TZ" -> ExtractTimeTz(cell)
              [] type_id = "UUID" -> ExtractUuid(cell)
              [] type_id = "ENUM" -> ExtractEnum(logical_type, cell)
              [] type_id \in {"BIT", "BLOB", "VARCHAR"} -> ExtractString(cell)
              [] type_id = "ARRAY" -> ExtractArray(vector, logical_type, row_idx, heap)
              [] type_id = "UHUGEINT" -> ExtractUhugeint(cell)
              [] type_id = "INTERVAL" -> ExtractInterval(cell)
              [] type_id = "LIST" -> ExtractList(vector, logical_type, row_idx, heap)
              [] type_id = "STRUCT" -> ExtractStruct(vector, logical_type, row_idx, heap)
              [] type_id = "MAP" -> ExtractMap(vector, logical_type, row_idx, heap)
              [] type_id = "UNION" -> enif_make_atom_fmt("unsupported_union_type_", type_id)
              [] OTHER -> enif_make_atom_fmt("unsupported_type_", type_id)

\* data_chunk_get_data_nif giving up on the chunk at the first cell of a
\* type extract_vector_value has no case for
DataChunkGetData_AbortOnUnsupported(ch, heap) ==
    LET row_count == ch.size
        column_count == Len(ch.cols)
        cells == [r \in 1..row_count |-> [c \in 1..column_count |->
                    extract_vector_value(ch.cols[c], ch.cols[c].column_type, r - 1, heap)]]
    IN IF row_count = 0 THEN enif_make_list_from_array(<<>>)
       ELSE IF \E r \in 1..row_count : \E c \in 1..column_count :
                    /\ cells[r][c].k = "atom"
                    /\ cells[r][c].v \in {"unsupported_timestamp_tz_type",
                                         "unsupported_union_type_", "unsupported_type_"}
       THEN enif_make_atom("error")
       ELSE enif_make_list_from_array(
                [r \in 1..row_count |-> enif_make_tuple_from_array(cells[r])])

\* data_chunk_get_data_nif: rows and every row_values array come from
\* enif_alloc and are written without a NULL check
DataChunkGetData(ch, heap) ==
    LET row_count == ch.size
        column_count == Len(ch.cols)
        cells == [r \in 1..row_count |-> [c \in 1..column_count |->
                    extract_vector_value(ch.cols[c], ch.cols[c].column_type, r - 1, heap)]]
    IN IF row_count = 0 THEN enif_make_list_from_array(<<>>)
       ELSE IF ~AllocOK(heap, row_count)
               \/ (column_count > 0 /\ ~AllocOK(heap, column_count))
       THEN Segfault
       ELSE IF \E r \in 1..row_count : AnySegfault(cells[r]) THEN Segfault
       \* a pending exception replaces the returned list
       ELSE IF \E r \in 1..row_count : AnyBadarg(cells[r]) THEN Badarg
       ELSE enif_make_list_from_array(
                [r \in 1..row_count |-> enif_make_tuple_from_array(cells[r])])

---------------------------------------------------------------------------
(* The chunks the chunk materializer is run on *)

MaxListLen == 3


\* the validity of a one-row vector: no bitmap, valid, NULL
Validity1 == {NoValidity, <<TRUE>>, <<FALSE>>}

HugeintChunks ==
    {Chunk1(Vec(Scalar("HUGEINT"), <<[upper |-> u, lower |-> l]>>, NoValidity))
        : u \in Int64, l \in UInt64}

UhugeintChunks ==
    {Chunk1(Vec(Scalar("UHUGEINT"), <<[upper |-> u, lower |-> l]>>, NoValidity))
        : u \in UInt64, l \in UInt64}

DecimalRaws == {LLONG_MIN, -1, 0, 5, LLONG_MAX}
DecimalHuges ==
    {[upper |-> 0, lower |-> 5], [upper |-> -1, lower |-> ULLONG_MAX],
     [upper |-> 1, lower |-> 0], [upper |-> LLONG_MIN, lower |-> 0]}

DecimalChunks ==
    {Chunk1(Vec(DecimalType(internal, scale), <<raw>>, NoValidity))
        : internal \in {"SMALLINT", "INTEGER", "BIGINT"}, scale \in 0..MaxScale,
          raw \in DecimalRaws}
    \cup
    {Chunk1(Vec(DecimalType("HUGEINT", scale), <<raw>>, NoValidity))
        : scale \in 0..MaxScale, raw \in DecimalHuges}

FloatCells == {DNaN, DPosInf, DNegInf, DFin(3, 2), DFin(0, 1)}
FloatChunks ==
    {Chunk1(Vec(Scalar(id), <<cell>>, validity))
        : id \in {"FLOAT", "DOUBLE"}, cell \in FloatCells, validity \in Validity1}

SampleDate == [year |-> 2024, month |-> 1, day |-> 2]
SampleTime == [hour |-> 3, min |-> 4, sec |-> 5, micros |-> 6]
\* all-zero, all-F, one of eight different limbs, and every value with a
\* single non-zero limb (1, 0xa1 or the top bit alone)
SampleUuids ==
    {[upper |-> <<0, 0, 0, 0>>, lower |-> <<0, 0, 0, 0>>],
     [upper |-> <<65535, 65535, 65535, 65535>>, lower |-> <<65535, 65535, 65535, 65535>>],
     [upper |-> <<4660, 22136, 39612, 57072>>, lower |-> <<1, 2, 3, 4>>]}
    \cup
    {[upper |-> [i \in 1..4 |-> IF i = pos THEN limb ELSE 0],
      lower |-> [i \in 1..4 |-> IF i + 4 = pos THEN limb ELSE 0]]
        : pos \in 1..8, limb \in {1, 161, 32768}}

\* sample cells of the remaining primitive types
SampleCells(id) ==
    CASE id = "BOOLEAN" -> {TRUE, FALSE}
      [] id \in {"TINYINT", "SMALLINT", "INTEGER", "TIMESTAMP_S", "TIMESTAMP_MS",
                 "TIMESTAMP_NS"} -> {-1, 5}
      [] id = "BIGINT" -> {LLONG_MIN, LLONG_MAX}
      [] id \in {"UTINYINT", "USMALLINT", "UINTEGER"} -> {0, 5}
      [] id = "UBIGINT" -> {0, ULLONG_MAX}
      [] id = "DATE" -> {SampleDate}
      [] id = "TIME" -> {SampleTime}
      [] id = "TIMESTAMP" -> {[date |-> SampleDate, time |-> SampleTime]}
      \* times of day within the first minutes after midnight
      [] id = "TIME_TZ" ->
            {[micros |-> (m * 60 + sec) * 1000000 + u, offset |-> o]
                : m \in {0, 1}, sec \in {0, 5}, u \in {0, 6, 999999},
                  o \in {-3600, 0, 3600}}
      [] id = "INTERVAL" -> {[months |-> 1, days |-> 2, micros |-> 3]}
      [] id = "UUID" -> SampleUuids
      [] id \in {"BIT", "BLOB", "VARCHAR"} ->
            {String_t(bytes, after) : bytes \in {<<>>, Text_ab, Blob_with_nul},
                                      after \in {<<>>, <<"Z">>}}
      \* a cell of a type the switch does not read
      [] OTHER -> {0}

PrimitiveIds ==
    (TypeIds \ {"HUGEINT", "UHUGEINT", "DECIMAL", "FLOAT", "DOUBLE", "ENUM",
                "LIST", "ARRAY", "STRUCT", "MAP"})

PrimitiveChunks ==
    UNION { {Chunk1(Vec(Scalar(id), <<cell>>, validity))
                : cell \in SampleCells(id), validity \in Validity1}
            : id \in PrimitiveIds }

EnumChunks ==
    {Chunk1(Vec(EnumType(internal, <<Text_ab, Literal_NULL>>), <<index>>, validity))
        : internal \in {"UTINYINT", "USMALLINT", "UINTEGER"}, index \in 0..2,
          validity \in Validity1}

\* the child of the list and map vectors: MaxListLen BIGINTs 1, 2, ...
BigintChild(validity) ==
    Vec(Scalar("BIGINT"), [i \in 1..MaxListLen |-> i], validity)
ChildValidities == {NoValidity, [i \in 1..MaxListLen |-> i # 2]}
ListEntries ==
    {[offset |-> o, length |-> n] : o \in 0..MaxListLen, n \in 0..MaxListLen}

ListChunks ==
    {Chunk1(Nested(ListType(Scalar("BIGINT")), <<entry>>, validity, BigintChild(cv)))
        : entry \in {e \in ListEntries : e.offset + e.length <= MaxListLen},
          validity \in Validity1, cv \in ChildValidities}

ArrayChunks ==
    {Chunk1(Nested(ArrayType(Scalar("BIGINT"), size), <<>>, validity, BigintChild(cv)))
        : size \in 0..MaxListLen, validity \in Validity1, cv \in ChildValidities}

\* the validity of a vector of n rows: no bitmap, all valid, row 0 NULL
ValidityN(n) == {NoValidity, [r \in 1..n |-> TRUE], [r \in 1..n |-> r # 1]}

\* structs {a: BIGINT, b: VARCHAR} in chunks of up to MaxRows rows, row r
\* holding {a = 4 + r, b = "x", "y", ...}
StructChunks ==
    UNION {
        {[cols |-> <<StructVec(StructType(<<<<"a">>, <<"b">>>>,
                                          <<Scalar("BIGINT"), Scalar("VARCHAR")>>),
                               validity,
                               <<Vec(Scalar("BIGINT"), [r \in 1..n |-> 4 + r], va),
                                 Vec(Scalar("VARCHAR"),
                                     [r \in 1..n |-> String_t(<<<<"x">>, <<"y">>, <<"z">>, <<"w">>>>[r],
                                                      <<>>)],
                                     vb)>>)>>,
          size |-> n]
            : validity \in ValidityN(n), va \in ValidityN(n), vb \in ValidityN(n)}
        : n \in 1..MaxRows }

\* a map is a list of {key, value} structs; the keys of one cell may repeat
MapKeys == 1..2
MapChild(keys) ==
    StructVec(StructType(<<<<"k", "e", "y">>, <<"v", "a", "l", "u", "e">>>>,
                         <<Scalar("BIGINT"), Scalar("BIGINT")>>),
              NoValidity,
              <<Vec(Scalar("BIGINT"), keys, NoValidity),
                Vec(Scalar("BIGINT"), [i \in 1..Len(keys) |-> 10 * i], NoValidity)>>)

MapChunks ==
    UNION { {Chunk1(Nested(MapType(Scalar("BIGINT"), Scalar("BIGINT")),
                           <<[offset |-> 0, length |-> n]>>, validity, MapChild(keys)))
                : keys \in [1..n -> MapKeys], validity \in Validity1}
            : n \in 0..MaxListLen }

\* chunks of several columns and rows
TableVectors(n) ==
    UNION { {Vec(Scalar("BIGINT"), [r \in 1..n |-> r], validity),
             Vec(Scalar("UUID"), [r \in 1..n |-> CHOOSE u \in SampleUuids : TRUE], validity),
             Vec(Scalar("UNION"), [r \in 1..n |-> 0], validity),
             Vec(Scalar("TIMESTAMP_TZ"), [r \in 1..n |-> 0], validity),
             Vec(Scalar("VARINT"), [r \in 1..n |-> 0], validity)}
            : validity \in {NoValidity, [r \in 1..n |-> r # 1]} }

TableChunks ==
    UNION { UNION {
        {[cols |-> cols, size |-> n] : cols \in [1..nc -> TableVectors(n)]}
        : n \in 1..MaxRows }
        : nc \in 1..MaxCols }

ChunkFamily ==
    HugeintChunks \cup UhugeintChunks \cup DecimalChunks \cup FloatChunks
    \cup PrimitiveChunks \cup EnumChunks \cup ListChunks \cup ArrayChunks
    \cup StructChunks \cup MapChunks \cup TableChunks

InitChunk ==
    /\ chunk \in ChunkFamily
    /\ heapFree \in HeapSizes
    /\ chunkOut = Pending
    /\ result = NoResult
    /\ rowsOut = Pending
    /\ columnsOut = Pending
    /\ getChunkOut = Pending
    /\ chunkResources = <<>>
    /\ appender = NoAppender
    /\ appenderCalls = <<>>
    /\ appendOut = Pending
    /\ appenderTable = <<>>
    /\ appenderFrees = <<>>
    /\ opsLeft = 0
    /\ callerValues = {}
    /\ opOut = Pending
    /\ rowsCalls = {}
    /\ calls = <<>>
    /\ sql_buffer = NoSqlText
    /\ stmt = NoStmt
    /\ execOut = Pending
    /\ conn = NoConn
    /\ txnOut = Pending

data_chunk_get_data_nif ==
    /\ chunk # NoChunk
    /\ chunkOut = Pending
    /\ chunkOut' = DataChunkGetData(chunk, heapFree)
    /\ UNCHANGED <<result, heapFree, rowsOut, columnsOut, chunk, getChunkOut, chunkResources, appender, appenderCalls, appendOut, appenderTable, appenderFrees, opsLeft, callerValues, opOut, rowsCalls, calls, sql_buffer, stmt, execOut, conn, txnOut>>

---------------------------------------------------------------------------

---------------------------------------------------------------------------
(* Appender.  An AppenderResource with its duckdb_appender is              *)
(*   [ptr, column_count, row, rows, closed, after_close, error]:           *)
(* the appender pointer ("live", or "NULL" once destroyed), the number of  *)
(* columns of the table, the values appended to the current row, the rows  *)
(* ended and not yet flushed, whether duckdb_appender_close has run,       *)
(* whether this build of the engine rejects or accepts calls on a closed   *)
(* appender (its interface leaves that open), and the text                 *)
(* duckdb_appender_error gives (NULLPTR when there is none).               *)

INT_MIN == -Pow(2, IntBits - 1)
INT_MAX == Pow(2, IntBits - 1) - 1
UINT_MAX == Pow(2, IntBits) - 1
UINT32_MAX == Pow(2, IntBits) - 1

\* enif_get_int / enif_get_uint / enif_get_int64 / enif_get_uint64: fail
\* unless the term is an integer that fits the C type
enif_get_range(term, min, max) ==
    IF term.k = "int" /\ term.v >= min /\ term.v <= max
    THEN [ok |-> TRUE, value |-> term.v] ELSE [ok |-> FALSE]
enif_get_int(term) == enif_get_range(term, INT_MIN, INT_MAX)
enif_get_uint(term) == enif_get_range(term, 0, UINT_MAX)
enif_get_int64(term) ==
    enif_get_range(term, -Pow(2, Int64Bits - 1), Pow(2, Int64Bits - 1) - 1)
enif_get_uint64(term) == enif_get_range(term, 0, Pow(2, Int64Bits) - 1)

\* (intN_t)value and (uintN_t)value in the appender's widths
CastInt(v, bits) ==
    LET m == Pow(2, bits)
        u == ((v % m) + m) % m
    IN IF u >= m \div 2 THEN u - m ELSE u
CastUInt(v, bits) == LET m == Pow(2, bits) IN ((v % m) + m) % m

\* the handle after the engine has deleted the appender and nulled the pointer
DestroyedAppender == [NoAppender EXCEPT !.ptr = "NULL"]

\* whether the engine acts on the appender: not on a NULL one, and on a
\* closed one only in a build that accepts it
AppenderUsable(app) ==
    app.ptr = "live" /\ ~(app.closed /\ app.after_close = "rejects")

\* the engine's duckdb_append_<type>: DuckDBError on an appender it does not
\* act on and, with a message, when the row has a value for every column
duckdb_append(app, fn, value) ==
    IF ~AppenderUsable(app) THEN [state |-> "DuckDBError", appender |-> app]
    ELSE IF Len(app.row) >= app.column_count
    THEN [state |-> "DuckDBError",
          appender |-> [app EXCEPT !.error = <<"T", "o", "o", " ", "m", "a", "n", "y", " ", "a", "p", "p", "e", "n", "d", "s", " ", "f", "o", "r", " ", "c", "h", "u", "n", "k", "!">>]]
    ELSE [state |-> "DuckDBSuccess",
          appender |-> [app EXCEPT !.row = Append(@, [fn |-> fn, value |-> value])]]
duckdb_appender_error(app) == IF app.ptr = "NULL" THEN NULLPTR ELSE app.error
duckdb_appender_column_count(app) == IF app.ptr = "NULL" THEN 0 ELSE app.column_count

\* the engine's duckdb_appender_end_row: the current row must be complete
duckdb_appender_end_row(app) ==
    IF ~AppenderUsable(app) THEN [state |-> "DuckDBError", appender |-> app]
    ELSE IF Len(app.row) # app.column_count
    THEN [state |-> "DuckDBError",
          appender |-> [app EXCEPT !.error = <<"C", "a", "l", "l", " ", "t", "o", " ", "E", "n", "d", "R", "o", "w", " ", "b", "e", "f", "o", "r", "e", " ", "a", "l", "l", " ", "c", "o", "l", "u", "m", "n", "s", " ", "h", "a", "v", "e", " ", "b", "e", "e", "n", " ", "a", "p", "p", "e", "n", "d", "e", "d", " ", "t", "o", "!">>]]
    ELSE [state |-> "DuckDBSuccess",
          appender |-> [app EXCEPT !.row = <<>>, !.rows = Append(@, app.row)]]

\* the engine's flushing: the ended rows go to the table (flushed) unless a
\* row is under way
FlushRows(app) ==
    IF app.row # <<>>
    THEN [state |-> "DuckDBError", flushed |-> <<>>,
          appender |-> [app EXCEPT !.error = <<"F", "a", "i", "l", "e", "d", " ", "t", "o", " ", "F", "l", "u", "s", "h", " ", "a", "p", "p", "e", "n", "d", "e", "r", ":", " ", "i", "n", "c", "o", "m", "p", "l", "e", "t", "e", " ", "a", "p", "p", "e", "n", "d", " ", "t", "o", " ", "r", "o", "w", "!">>]]
    ELSE [state |-> "DuckDBSuccess", flushed |-> app.rows,
          appender |-> [app EXCEPT !.rows = <<>>]]
duckdb_appender_flush(app) ==
    IF ~AppenderUsable(app)
    THEN [state |-> "DuckDBError", flushed |-> <<>>, appender |-> app]
    ELSE FlushRows(app)
duckdb_appender_close(app) ==
    IF app.ptr = "NULL"
    THEN [state |-> "DuckDBError", flushed |-> <<>>, appender |-> app]
    ELSE [FlushRows(app) EXCEPT !.appender.closed = TRUE]

\* the engine's duckdb_appender_destroy(&appender): DuckDBError for a NULL
\* pointer; otherwise it closes the appender, deletes it, sets the pointer
\* to NULL and returns the state of the close
duckdb_appender_destroy(app) ==
    IF app.ptr = "NULL"
    THEN [state |-> "DuckDBError", flushed |-> <<>>, freed |-> <<>>, appender |-> app]
    ELSE [state |-> duckdb_appender_close(app).state,
          flushed |-> duckdb_appender_close(app).flushed,
          freed |-> <<app.ptr>>,
          appender |-> DestroyedAppender]

\* a call that returns before reaching the engine
AppendReturn(app, term) == [term |-> term, calls |-> <<>>, appender |-> app]

\* the common tail of the append NIFs: the engine call and its state
AppendForward(app, fn, value) ==
    LET call == duckdb_append(app, fn, value)
        error_msg == duckdb_appender_error(call.appender)
    IN [term |-> IF call.state = "DuckDBError"
                 THEN make_error(IF error_msg # NULLPTR THEN error_msg
                                 ELSE <<"U", "n", "k", "n", "o", "w", "n", " ", "a", "p", "p", "e", "n", "d", "e", "r", " ", "a", "p", "p", "e", "n", "d", " ", "e", "r", "r", "o", "r">>)
                 ELSE enif_make_atom("ok"),
        calls |-> <<[fn |-> fn, value |-> value]>>,
        appender |-> call.appender]

\* appender_append_int8_nif without its range check
AppenderAppendInt8_NoRangeCheck(app, term) ==
    LET value == enif_get_int(term)
    IN IF ~value.ok THEN AppendReturn(app, Badarg)
       ELSE AppendForward(app, "duckdb_append_int8", CastInt(value.value, 8))

AppenderAppendInt8(app, term) ==
    LET value == enif_get_int(term)
    IN IF ~value.ok THEN AppendReturn(app, Badarg)
       ELSE IF value.value < -128 \/ value.value > 127
       THEN AppendReturn(app, make_error(<<"V", "a", "l", "u", "e", " ", "o", "u", "t", " ", "o", "f", " ", "r", "a", "n", "g", "e", " ", "f", "o", "r", " ", "i", "n", "t", "8">>))
       ELSE AppendForward(app, "duckdb_append_int8", CastInt(value.value, 8))

AppenderAppendInt16(app, term) ==
    LET value == enif_get_int(term)
    IN IF ~value.ok THEN AppendReturn(app, Badarg)
       ELSE IF value.value < -32768 \/ value.value > 32767
       THEN AppendReturn(app, make_error(<<"V", "a", "l", "u", "e", " ", "o", "u", "t", " ", "o", "f", " ", "r", "a", "n", "g", "e", " ", "f", "o", "r", " ", "i", "n", "t", "1", "6">>))
       ELSE AppendForward(app, "duckdb_append_int16", CastInt(value.value, 16))

AppenderAppendInt32(app, term) ==
    LET value == enif_get_int(term)
    IN IF ~value.ok THEN AppendReturn(app, Badarg)
       ELSE AppendForward(app, "duckdb_append_int32", CastInt(value.value, IntBits))

AppenderAppendInt64(app, term) ==
    LET value == enif_get_int64(term)
    IN IF ~value.ok THEN AppendReturn(app, Badarg)
       ELSE AppendForward(app, "duckdb_append_int64", CastInt(value.value, Int64Bits))

AppenderAppendUint8(app, term) ==
    LET value == enif_get_uint(term)
    IN IF ~value.ok THEN AppendReturn(app, Badarg)
       ELSE IF value.value > 255
       THEN AppendReturn(app, make_error(<<"V", "a", "l", "u", "e", " ", "o", "u", "t", " ", "o", "f", " ", "r", "a", "n", "g", "e", " ", "f", "o", "r", " ", "u", "i", "n", "t", "8">>))
       ELSE AppendForward(app, "duckdb_append_uint8", CastUInt(value.value, 8))

AppenderAppendUint16(app, term) ==
    LET value == enif_get_uint(term)
    IN IF ~value.ok THEN AppendReturn(app, Badarg)
       ELSE IF value.value > 65535
       THEN AppendReturn(app, make_error(<<"V", "a", "l", "u", "e", " ", "o", "u", "t", " ", "o", "f", " ", "r", "a", "n", "g", "e", " ", "f", "o", "r", " ", "u", "i", "n", "t", "1", "6">>))
       ELSE AppendForward(app, "duckdb_append_uint16", CastUInt(value.value, 16))

AppenderAppendUint32(app, term) ==
    LET value == enif_get_uint64(term)
    IN IF ~value.ok THEN AppendReturn(app, Badarg)
       ELSE IF value.value > UINT32_MAX
       THEN AppendReturn(app, make_error(<<"V", "a", "l", "u", "e", " ", "o", "u", "t", " ", "o", "f", " ", "r", "a", "n", "g", "e", " ", "f", "o", "r", " ", "u", "i", "n", "t", "3", "2">>))
       ELSE AppendForward(app, "duckdb_append_uint32", CastUInt(value.value, IntBits))

AppenderAppendUint64(app, term) ==
    LET value == enif_get_uint64(term)
    IN IF ~value.ok THEN AppendReturn(app, Badarg)
       ELSE AppendForward(app, "duckdb_append_uint64", CastUInt(value.value, Int64Bits))

\* the integers a caller appends: the values on both sides of every limit
AppendValues ==
    {-100, -1, 0, 100, 200} \cup
    UNION { {-Pow(2, b - 1) - 1, -Pow(2, b - 1), Pow(2, b - 1) - 1, Pow(2, b - 1),
             Pow(2, b) - 1, Pow(2, b)} : b \in {8, 16, IntBits, Int64Bits} }

\* an appender of a table of n columns with the first k values of the
\* current row appended and b rows ended and not flushed
AppenderInUse(n, k, b, closed, after_close) ==
    [ptr |-> "live", column_count |-> n,
     row |-> [i \in 1..k |-> [fn |-> "duckdb_append_int32", value |-> i]],
     rows |-> [r \in 1..b |-> [i \in 1..n |-> [fn |-> "duckdb_append_int32", value |-> i]]],
     closed |-> closed, after_close |-> after_close, error |-> NULLPTR]

\* the appenders in use: with a row under way, with a row to flush, and
\* after a close in a build of either kind
AppendersInUse ==
    UNION { {AppenderInUse(n, k, 0, FALSE, "accepts") : k \in 0..n}
            \cup {AppenderInUse(n, 0, 1, FALSE, "accepts"),
                  AppenderInUse(n, 0, 0, TRUE, "accepts"),
                  AppenderInUse(n, 0, 0, TRUE, "rejects")}
          : n \in 1..MaxCols }

\* the caller either makes one call with any integer, or up to MaxOps calls
\* with a few
InitAppender ==
    /\ appender \in AppendersInUse
    /\ \/ opsLeft = 1 /\ \E v \in AppendValues : callerValues = {v}
       \/ opsLeft = MaxOps /\ callerValues = {100, 200}
    /\ appenderCalls = <<>>
    /\ appendOut = Pending
    /\ appenderTable = <<>>
    /\ appenderFrees = <<>>
    /\ opOut = Pending
    /\ heapFree = HeapAmple
    /\ result = NoResult
    /\ rowsOut = Pending
    /\ columnsOut = Pending
    /\ chunk = NoChunk
    /\ chunkOut = Pending
    /\ getChunkOut = Pending
    /\ chunkResources = <<>>
    /\ rowsCalls = {}
    /\ calls = <<>>
    /\ sql_buffer = NoSqlText
    /\ stmt = NoStmt
    /\ execOut = Pending
    /\ conn = NoConn
    /\ txnOut = Pending

\* one appender NIF called on the handle: the term it returned, the handle
\* and its appender afterwards, the rows the engine flushed to the table and
\* the cursors it released
OpStep(op, term, app, flushed, freed) ==
    /\ appender # NoAppender
    /\ opsLeft > 0
    /\ opsLeft' = opsLeft - 1
    /\ opOut' = [k |-> "returned", op |-> op, term |-> term, before |-> appender]
    /\ appender' = app
    /\ appenderTable' = appenderTable \o flushed
    /\ appenderFrees' = appenderFrees \o freed
    /\ UNCHANGED <<result, heapFree, rowsOut, columnsOut, chunk, chunkOut, getChunkOut, chunkResources, callerValues, rowsCalls, calls, sql_buffer, stmt, execOut, conn, txnOut>>

\* one append NIF called with an integer: what it returned, the engine calls
\* it made, and the appender afterwards
AppendStep(op, value, call) ==
    /\ value \in callerValues
    /\ appendOut' = [k |-> "returned", op |-> op, value |-> value, term |-> call.term]
    /\ appenderCalls' = call.calls
    /\ OpStep(op, call.term, call.appender, <<>>, <<>>)

appender_column_count_nif ==
    /\ OpStep("column_count", enif_make_uint64(duckdb_appender_column_count(appender)),
              appender, <<>>, <<>>)
    /\ UNCHANGED <<appenderCalls, appendOut, rowsCalls, calls, sql_buffer, stmt, execOut, conn, txnOut>>

appender_flush_nif ==
    LET call == duckdb_appender_flush(appender)
        error_msg == duckdb_appender_error(call.appender)
    IN /\ OpStep("flush",
                 IF call.state = "DuckDBError"
                 THEN make_error(IF error_msg # NULLPTR THEN error_msg
                                 ELSE <<"U", "n", "k", "n", "o", "w", "n", " ", "a", "p", "p", "e", "n", "d", "e", "r", " ", "f", "l", "u", "s", "h", " ", "e", "r", "r", "o", "r">>)
                 ELSE enif_make_atom("ok"),
                 call.appender, call.flushed, <<>>)
       /\ UNCHANGED <<appenderCalls, appendOut, rowsCalls, calls, sql_buffer, stmt, execOut, conn, txnOut>>

appender_close_nif ==
    LET call == duckdb_appender_close(appender)
        error_msg == duckdb_appender_error(call.appender)
    IN /\ OpStep("close",
                 IF call.state = "DuckDBError"
                 THEN make_error(IF error_msg # NULLPTR THEN error_msg
                                 ELSE <<"U", "n", "k", "n", "o", "w", "n", " ", "a", "p", "p", "e", "n", "d", "e", "r", " ", "c", "l", "o", "s", "e", " ", "e", "r", "r", "o", "r">>)
                 ELSE enif_make_atom("ok"),
                 call.appender, call.flushed, <<>>)
       /\ UNCHANGED <<appenderCalls, appendOut, rowsCalls, calls, sql_buffer, stmt, execOut, conn, txnOut>>

\* a destroy that reports success and leaves the handle as it was
AppenderDestroy_NotMarked(app) ==
    [term |-> enif_make_atom("ok"), appender |-> app, flushed |-> <<>>, freed |-> <<>>]

\* appender_destroy_nif: on DuckDBSuccess the NIF sets the pointer to NULL
\* itself as well
AppenderDestroy(app) ==
    LET call == duckdb_appender_destroy(app)
    IN IF call.state = "DuckDBError"
       THEN [term |-> make_error(<<"F", "a", "i", "l", "e", "d", " ", "t", "o", " ", "d", "e", "s", "t", "r", "o", "y", " ", "a", "p", "p", "e", "n", "d", "e", "r">>),
             appender |-> call.appender, flushed |-> call.flushed, freed |-> call.freed]
       ELSE [term |-> enif_make_atom("ok"),
             appender |-> [call.appender EXCEPT !.ptr = "NULL"],
             flushed |-> call.flushed, freed |-> call.freed]

appender_destroy_nif ==
    LET call == AppenderDestroy(appender)
    IN /\ OpStep("destroy", call.term, call.appender, call.flushed, call.freed)
       /\ UNCHANGED <<appenderCalls, appendOut, rowsCalls, calls, sql_buffer, stmt, execOut, conn, txnOut>>

appender_end_row_nif ==
    LET call == duckdb_appender_end_row(appender)
        error_msg == duckdb_appender_error(call.appender)
    IN /\ OpStep("end_row",
                 IF call.state = "DuckDBError"
                 THEN make_error(IF error_msg # NULLPTR THEN error_msg
                                 ELSE <<"U", "n", "k", "n", "o", "w", "n", " ", "a", "p", "p", "e", "n", "d", "e", "r", " ", "e", "n", "d", " ", "r", "o", "w", " ", "e", "r", "r", "o", "r">>)
                 ELSE enif_make_atom("ok"),
                 call.appender, <<>>, <<>>)
       /\ UNCHANGED <<appenderCalls, appendOut, rowsCalls, calls, sql_buffer, stmt, execOut, conn, txnOut>>

appender_append_null_nif ==
    LET call == AppendForward(appender, "duckdb_append_null", "NULL")
    IN /\ OpStep("append_null", call.term, call.appender, <<>>, <<>>)
       /\ UNCHANGED <<appenderCalls, appendOut, rowsCalls, calls, sql_buffer, stmt, execOut, conn, txnOut>>

\* a resource teardown that leaves the appender to the engine
AppenderResourceDestructor_Leak(app) == [flushed |-> <<>>, freed |-> <<>>]

\* appender_resource_destructor: runs when the caller has dropped the
\* handle; the resource is gone afterwards
AppenderResourceDestructor(app) ==
    IF app.ptr # "NULL" THEN duckdb_appender_destroy(app)
    ELSE [flushed |-> <<>>, freed |-> <<>>]

appender_resource_destructor ==
    LET call == AppenderResourceDestructor(appender)
    IN /\ appender # NoAppender
       /\ opsLeft' = 0
       /\ opOut' = [k |-> "returned", op |-> "destructor", term |-> Pending, before |-> appender]
       /\ appender' = NoAppender
       /\ appenderTable' = appenderTable \o call.flushed
       /\ appenderFrees' = appenderFrees \o call.freed
       /\ UNCHANGED <<result, heapFree, rowsOut, columnsOut, chunk, chunkOut, getChunkOut, chunkResources, callerValues, appenderCalls, appendOut, rowsCalls, calls, sql_buffer, stmt, execOut, conn, txnOut>>

appender_append_int8_nif ==
    \E value \in AppendValues :
        AppendStep("int8", value, AppenderAppendInt8(appender, enif_make_int64(value)))
appender_append_int16_nif ==
    \E value \in AppendValues :
        AppendStep("int16", value, AppenderAppendInt16(appender, enif_make_int64(value)))
appender_append_int32_nif ==
    \E value \in AppendValues :
        AppendStep("int32", value, AppenderAppendInt32(appender, enif_make_int64(value)))
appender_append_int64_nif ==
    \E value \in AppendValues :
        AppendStep("int64", value, AppenderAppendInt64(appender, enif_make_int64(value)))
appender_append_uint8_nif ==
    \E value \in AppendValues :
        AppendStep("uint8", value, AppenderAppendUint8(appender, enif_make_int64(value)))
appender_append_uint16_nif ==
    \E value \in AppendValues :
        AppendStep("uint16", value, AppenderAppendUint16(appender, enif_make_int64(value)))
appender_append_uint32_nif ==
    \E value \in AppendValues :
        AppendStep("uint32", value, AppenderAppendUint32(appender, enif_make_int64(value)))
appender_append_uint64_nif ==
    \E value \in AppendValues :
        AppendStep("uint64", value, AppenderAppendUint64(appender, enif_make_int64(value)))


---------------------------------------------------------------------------
(* Query and prepare.  Both NIFs are dirty NIFs, so two calls can run on   *)
(* two scheduler threads at once; a call is modelled in two steps, the     *)
(* decoding of the SQL argument and the engine call with what follows.     *)
(* A call is [op, arg, pc, sql, buf, handed, state, diag, term, destroys,   *)
(* handle]: the NIF, its SQL argument, where it stands, what char *sql     *)
(* points to, the enif_alloc'ed copy, the text the engine was given, the   *)
(* engine's state and diagnostic, the term returned, the number of          *)
(* duckdb_destroy_result / duckdb_destroy_prepare invocations on the       *)
(* resource's engine object, and whether the caller holds the resource.    *)

\* sizeof(sql_buffer), scaled
SqlBufferSize == 4

\* the bytes of a C string: those before the first NUL
RECURSIVE CString(_)
CString(bytes) ==
    IF bytes = <<>> \/ Head(bytes) = "\\0" THEN <<>>
    ELSE <<Head(bytes)>> \o CString(Tail(bytes))

\* a list of Latin-1 character codes
enif_make_string(str) ==
    [k |-> "list", v |-> [i \in 1..Len(str) |-> [k |-> "char", v |-> str[i]]]]

enif_inspect_binary(term) == term.k = "bin"

\* enif_get_string: n + 1 with the text and its NUL in buf; -len with the
\* first len - 1 characters when the text does not fit; 0 with an empty
\* string in buf when the term is not a list of characters
enif_get_string(term, len) ==
    IF term.k # "list" \/ \E i \in 1..Len(term.v) : term.v[i].k # "char"
    THEN [ret |-> 0, buf |-> <<>>]
    ELSE LET str == [i \in 1..Len(term.v) |-> term.v[i].v]
         IN IF Len(str) + 1 > len
            THEN [ret |-> -len, buf |-> SubSeq(str, 1, len - 1)]
            ELSE [ret |-> Len(str) + 1, buf |-> str]

Text_Failed_to_allocate_memory_for_SQL_string ==
    <<"F", "a", "i", "l", "e", "d", " ", "t", "o", " ", "a", "l", "l", "o", "c", "a", "t", "e", " ", "m", "e", "m", "o", "r", "y", " ", "f", "o", "r", " ", "S", "Q", "L", " ", "s", "t", "r", "i", "n", "g">>
Text_Query_failed == <<"Q", "u", "e", "r", "y", " ", "f", "a", "i", "l", "e", "d">>
Text_Failed_to_prepare_statement ==
    <<"F", "a", "i", "l", "e", "d", " ", "t", "o", " ", "p", "r", "e", "p", "a", "r", "e", " ", "s", "t", "a", "t", "e", "m", "e", "n", "t">>

\* the engine parsing a statement: it accepts the texts that start with
\* "s" and rejects the others with a diagnostic that quotes the text
duckdb_query(sql) ==
    IF sql # <<>> /\ sql[1] = "s"
    THEN [state |-> "DuckDBSuccess", error |-> NULLPTR]
    ELSE [state |-> "DuckDBError",
          error |-> <<"P", "a", "r", "s", "e", "r", " ", "E", "r", "r", "o", "r", ":", " ">> \o sql]

\* the decoding of argv[1]: a binary is copied to an enif_alloc'ed buffer
\* of size + 1 bytes, anything else is read as a character list into the
\* function's static sql_buffer
SqlDecode(call, heap, static) ==
    IF enif_inspect_binary(call.arg)
    THEN IF ~AllocOK(heap, Len(call.arg.v) + 1)
         THEN [call |-> [call EXCEPT !.pc = "done",
                            !.term = make_error(Text_Failed_to_allocate_memory_for_SQL_string)],
               static |-> static]
         ELSE [call |-> [call EXCEPT !.pc = "decoded", !.sql = "heap", !.buf = call.arg.v],
               static |-> static]
    ELSE LET got == enif_get_string(call.arg, SqlBufferSize)
         IN [call |-> IF got.ret <= 0
                      THEN [call EXCEPT !.pc = "done", !.term = Badarg]
                      ELSE [call EXCEPT !.pc = "decoded", !.sql = "sql_buffer"],
             static |-> got.buf]

\* duckdb_query / duckdb_prepare on what sql points to at that moment, then
\* the error path (message, explicit destroy, release of the only
\* reference, which runs the resource destructor) or the success path
\* (the resource goes to the caller)
SqlRun(call, static, fallback) ==
    LET sql == CString(IF call.sql = "heap" THEN call.buf ELSE static)
        r == duckdb_query(sql)
    IN IF r.state = "DuckDBError"
       THEN [call EXCEPT !.pc = "done", !.handed = sql, !.state = r.state,
                         !.diag = r.error,
                         !.term = make_error(IF r.error # NULLPTR THEN r.error ELSE fallback),
                         !.destroys = 2]
       ELSE [call EXCEPT !.pc = "done", !.handed = sql, !.state = r.state,
                         !.term = make_ok([k |-> "resource", v |-> call.op]),
                         !.handle = "held"]

Fallback(op) ==
    IF op = "query" THEN Text_Query_failed ELSE Text_Failed_to_prepare_statement

SqlStep(i, op) ==
    /\ i \in DOMAIN calls
    /\ calls[i].op = op
    /\ \/ /\ calls[i].pc = "start"
          /\ LET d == SqlDecode(calls[i], heapFree, sql_buffer[op])
             IN /\ calls' = [calls EXCEPT ![i] = d.call]
                /\ sql_buffer' = [sql_buffer EXCEPT ![op] = d.static]
       \/ /\ calls[i].pc = "decoded"
          /\ calls' = [calls EXCEPT ![i] = SqlRun(calls[i], sql_buffer[op], Fallback(op))]
          /\ UNCHANGED sql_buffer
    /\ UNCHANGED <<result, heapFree, rowsOut, columnsOut, chunk, chunkOut, getChunkOut, chunkResources, appender, appenderCalls, appendOut, appenderTable, appenderFrees, opsLeft, callerValues, opOut, rowsCalls, stmt, execOut, conn, txnOut>>

connection_query_nif == \E i \in DOMAIN calls : SqlStep(i, "query")
prepared_statement_prepare_nif == \E i \in DOMAIN calls : SqlStep(i, "prepare")

\* result_resource_destructor / prepared_statement_resource_destructor when
\* the caller's last reference to a returned resource goes away
result_resource_destructor ==
    /\ \/ /\ \E i \in DOMAIN calls :
                /\ calls[i].handle = "held"
                /\ calls' = [calls EXCEPT ![i].handle = "collected",
                                          ![i].destroys = calls[i].destroys + 1]
          /\ UNCHANGED execOut
       \/ /\ execOut # Pending
          /\ execOut.handle = "held"
          /\ execOut' = [execOut EXCEPT !.handle = "collected", !.destroys = @ + 1]
          /\ UNCHANGED calls
    /\ UNCHANGED <<result, heapFree, rowsOut, columnsOut, chunk, chunkOut, getChunkOut, chunkResources, appender, appenderCalls, appendOut, appenderTable, appenderFrees, opsLeft, callerValues, opOut, rowsCalls, sql_buffer, stmt, conn, txnOut>>

SqlTexts == {<<"s", "1">>, <<"s", "2">>, <<"x">>, <<"s", "1", "1", "1">>}
SqlArgs == {enif_make_binary(t) : t \in SqlTexts} \cup {enif_make_string(t) : t \in SqlTexts}
NewCall(op, arg) ==
    [op |-> op, arg |-> arg, pc |-> "start", sql |-> "none", buf |-> <<>>,
     handed |-> NULLPTR, state |-> "none", diag |-> NULLPTR, term |-> Pending,
     destroys |-> 0, handle |-> "none"]

InitQuery ==
    /\ \E op1 \in {"query", "prepare"}, op2 \in {"query", "prepare"} :
       \E a1 \in SqlArgs, a2 \in SqlArgs :
          calls = <<NewCall(op1, a1), NewCall(op2, a2)>>
    /\ sql_buffer = NoSqlText
    /\ heapFree \in HeapSizes
    /\ result = NoResult
    /\ rowsOut = Pending
    /\ columnsOut = Pending
    /\ chunk = NoChunk
    /\ chunkOut = Pending
    /\ getChunkOut = Pending
    /\ chunkResources = <<>>
    /\ appender = NoAppender
    /\ appenderCalls = <<>>
    /\ appendOut = Pending
    /\ appenderTable = <<>>
    /\ appenderFrees = <<>>
    /\ opsLeft = 0
    /\ callerValues = {}
    /\ opOut = Pending
    /\ rowsCalls = {}
    /\ stmt = NoStmt
    /\ execOut = Pending
    /\ conn = NoConn
    /\ txnOut = Pending

---------------------------------------------------------------------------
(* Prepared-statement execute.  A statement is [prepared, nparams, binds,  *)
(* executions]: the number of its parameters, the duckdb_bind_* calls the  *)
(* engine received for it as [fn, idx, value], and how many times it was   *)
(* executed.                                                               *)

MaxParams == 2

Text_Failed_to_bind_parameter ==
    <<"F", "a", "i", "l", "e", "d", " ", "t", "o", " ", "b", "i", "n", "d", " ", "p", "a", "r", "a", "m", "e", "t", "e", "r", " ">>
Text_Parameter_count_mismatch_expected ==
    <<"P", "a", "r", "a", "m", "e", "t", "e", "r", " ", "c", "o", "u", "n", "t", " ", "m", "i", "s", "m", "a", "t", "c", "h", ":", " ", "e", "x", "p", "e", "c", "t", "e", "d", " ">>
Text_Failed_to_execute_prepared_statement ==
    <<"F", "a", "i", "l", "e", "d", " ", "t", "o", " ", "e", "x", "e", "c", "u", "t", "e", " ", "p", "r", "e", "p", "a", "r", "e", "d", " ", "s", "t", "a", "t", "e", "m", "e", "n", "t">>

duckdb_nparams(st) == st.nparams

\* duckdb_bind_null / _boolean / _int64 / _double / _varchar: the engine
\* takes the value for parameter idx
duckdb_bind(st, fn, idx, value) ==
    [state |-> "DuckDBSuccess",
     stmt |-> [st EXCEPT !.binds = Append(@, [fn |-> fn, idx |-> idx, value |-> value])]]

\* the engine running the statement: it rejects a parameter bound to the
\* text "x" with a conversion diagnostic
duckdb_execute_prepared(st) ==
    IF \E i \in 1..Len(st.binds) :
          st.binds[i].fn = "duckdb_bind_varchar" /\ st.binds[i].value = <<"x">>
    THEN [state |-> "DuckDBError",
          error |-> <<"C", "o", "n", "v", "e", "r", "s", "i", "o", "n", " ", "E", "r", "r", "o", "r", ":", " ", "x">>,
          stmt |-> st]
    ELSE [state |-> "DuckDBSuccess", error |-> NULLPTR,
          stmt |-> [st EXCEPT !.executions = @ + 1]]

enif_get_long(term) == enif_get_int64(term)

\* bind_parameter: nil, true, false, an integer that fits a long, a
\* double, a binary (copied to an enif_alloc'ed buffer), a character list
\* (read into char str_buffer[1024]); anything else is DuckDBError
bind_parameter(st, param_idx, param, heap) ==
    IF param = atom_nil THEN duckdb_bind(st, "duckdb_bind_null", param_idx, <<>>)
    ELSE IF param = enif_make_atom("true")
    THEN duckdb_bind(st, "duckdb_bind_boolean", param_idx, TRUE)
    ELSE IF param = enif_make_atom("false")
    THEN duckdb_bind(st, "duckdb_bind_boolean", param_idx, FALSE)
    ELSE IF enif_get_long(param).ok
    THEN duckdb_bind(st, "duckdb_bind_int64", param_idx, enif_get_long(param).value)
    ELSE IF param.k = "double"
    THEN duckdb_bind(st, "duckdb_bind_double", param_idx, param.v)
    ELSE IF enif_inspect_binary(param)
    THEN IF ~AllocOK(heap, Len(param.v) + 1)
         THEN [state |-> "DuckDBError", stmt |-> st]
         ELSE duckdb_bind(st, "duckdb_bind_varchar", param_idx, CString(param.v))
    ELSE IF param.k = "list" /\ enif_get_string(param, 1024).ret > 0
    THEN duckdb_bind(st, "duckdb_bind_varchar", param_idx,
                     CString(enif_get_string(param, 1024).buf))
    ELSE [state |-> "DuckDBError", stmt |-> st]

\* for (idx_t i = 0; i < param_count; i++): the parameters are bound in
\* order, 1-based, until one fails; failed is its position, or 0
RECURSIVE BindParameters(_, _, _, _)
BindParameters(st, list, i, heap) ==
    IF i > Len(list) THEN [failed |-> 0, stmt |-> st]
    ELSE LET b == bind_parameter(st, i, list[i], heap)
         IN IF b.state = "DuckDBError" THEN [failed |-> i, stmt |-> b.stmt]
            ELSE BindParameters(b.stmt, list, i + 1, heap)

\* prepared_statement_execute_nif from the list test on: the term, the
\* statement afterwards, the engine's state and diagnostic, the number of
\* duckdb_destroy_result invocations on the ResultResource (explicit call
\* plus the destructor run by enif_release_resource on the error path) and
\* whether the caller holds the resource
PreparedStatementExecute(st, params, heap) ==
    LET none == [term |-> Badarg, stmt |-> st, state |-> "none", diag |-> NULLPTR,
                 destroys |-> 0, handle |-> "none", failed |-> 0]
    IN IF params.k # "list" THEN none
       ELSE IF Len(params.v) # duckdb_nparams(st)
       THEN [none EXCEPT !.term = make_error(Text_Parameter_count_mismatch_expected
                                    \o FormatU(duckdb_nparams(st))
                                    \o <<",", " ", "g", "o", "t", " ">>
                                    \o FormatU(Len(params.v)))]
       ELSE LET b == BindParameters(st, params.v, 1, heap)
                r == duckdb_execute_prepared(b.stmt)
            IN IF b.failed # 0
               THEN [none EXCEPT !.term = make_error(Text_Failed_to_bind_parameter
                                                     \o FormatU(b.failed)),
                                 !.stmt = b.stmt, !.failed = b.failed]
               ELSE IF r.state = "DuckDBError"
               THEN [none EXCEPT !.term = make_error(IF r.error # NULLPTR THEN r.error
                                        ELSE Text_Failed_to_execute_prepared_statement),
                                 !.stmt = r.stmt, !.state = r.state, !.diag = r.error,
                                 !.destroys = 2]
               ELSE [none EXCEPT !.term = make_ok([k |-> "resource", v |-> "result"]),
                                 !.stmt = r.stmt, !.state = r.state, !.handle = "held"]

ParamTerms ==
    {atom_nil, enif_make_atom("true"), enif_make_atom("false"), enif_make_int64(5),
     enif_make_binary(<<"a">>), enif_make_binary(<<"x">>), enif_make_string(<<"a">>),
     enif_make_atom("foo"), enif_make_tuple_from_array(<<>>)}
ParamLists ==
    UNION {[1..n -> ParamTerms] : n \in 0..MaxParams}

prepared_statement_execute_nif ==
    /\ stmt # NoStmt
    /\ execOut = Pending
    /\ \E params \in ParamLists :
          LET e == PreparedStatementExecute(stmt, enif_make_list_from_array(params), heapFree)
          IN /\ stmt' = e.stmt
             /\ execOut' = [k |-> "returned", params |-> params, before |-> stmt,
                            term |-> e.term, state |-> e.state, diag |-> e.diag,
                            destroys |-> e.destroys, handle |-> e.handle,
                            failed |-> e.failed]
    /\ UNCHANGED <<result, heapFree, rowsOut, columnsOut, chunk, chunkOut, getChunkOut, chunkResources, appender, appenderCalls, appendOut, appenderTable, appenderFrees, opsLeft, callerValues, opOut, rowsCalls, calls, sql_buffer, conn, txnOut>>

InitExecute ==
    /\ \E n \in 0..MaxParams : stmt = [prepared |-> TRUE, nparams |-> n, binds |-> <<>>, executions |-> 0]
    /\ execOut = Pending
    /\ heapFree \in HeapSizes
    /\ calls = <<>>
    /\ sql_buffer = NoSqlText
    /\ result = NoResult
    /\ rowsOut = Pending
    /\ columnsOut = Pending
    /\ chunk = NoChunk
    /\ chunkOut = Pending
    /\ getChunkOut = Pending
    /\ chunkResources = <<>>
    /\ appender = NoAppender
    /\ appenderCalls = <<>>
    /\ appendOut = Pending
    /\ appenderTable = <<>>
    /\ appenderFrees = <<>>
    /\ opsLeft = 0
    /\ callerValues = {}
    /\ opOut = Pending
    /\ rowsCalls = {}
    /\ conn = NoConn
    /\ txnOut = Pending

---------------------------------------------------------------------------
(* Transactions.  A connection is [open, in_transaction]. *)

\* the engine running BEGIN TRANSACTION / COMMIT / ROLLBACK on a connection
duckdb_query_transaction(c, sql) ==
    IF sql = "BEGIN TRANSACTION"
    THEN IF c.in_transaction
         THEN [state |-> "DuckDBError", conn |-> c,
               error |-> <<"T", "r", "a", "n", "s", "a", "c", "t", "i", "o", "n", "C", "o", "n", "t", "e", "x", "t", " ", "E", "r", "r", "o", "r", ":", " ", "c", "a", "n", "n", "o", "t", " ", "s", "t", "a", "r", "t", " ", "a", " ", "t", "r", "a", "n", "s", "a", "c", "t", "i", "o", "n", " ", "w", "i", "t", "h", "i", "n", " ", "a", " ", "t", "r", "a", "n", "s", "a", "c", "t", "i", "o", "n">>]
         ELSE [state |-> "DuckDBSuccess", conn |-> [c EXCEPT !.in_transaction = TRUE],
               error |-> NULLPTR]
    ELSE IF ~c.in_transaction
         THEN [state |-> "DuckDBError", conn |-> c,
               error |-> IF sql = "COMMIT"
                         THEN <<"T", "r", "a", "n", "s", "a", "c", "t", "i", "o", "n", "C", "o", "n", "t", "e", "x", "t", " ", "E", "r", "r", "o", "r", ":", " ", "c", "a", "n", "n", "o", "t", " ", "c", "o", "m", "m", "i", "t", " ", "-", " ", "n", "o", " ", "t", "r", "a", "n", "s", "a", "c", "t", "i", "o", "n", " ", "i", "s", " ", "a", "c", "t", "i", "v", "e">>
                         ELSE <<"T", "r", "a", "n", "s", "a", "c", "t", "i", "o", "n", "C", "o", "n", "t", "e", "x", "t", " ", "E", "r", "r", "o", "r", ":", " ", "c", "a", "n", "n", "o", "t", " ", "r", "o", "l", "l", "b", "a", "c", "k", " ", "-", " ", "n", "o", " ", "t", "r", "a", "n", "s", "a", "c", "t", "i", "o", "n", " ", "i", "s", " ", "a", "c", "t", "i", "v", "e">>]
         ELSE [state |-> "DuckDBSuccess", conn |-> [c EXCEPT !.in_transaction = FALSE],
               error |-> NULLPTR]

\* the body shared by connection_begin_transaction_nif, connection_commit_nif
\* and connection_rollback_nif: on DuckDBError the message goes through
\* enif_make_string into {error, Message}; otherwise ok
ConnectionTransaction(c, sql) ==
    LET r == duckdb_query_transaction(c, sql)
    IN [term |-> IF r.state = "DuckDBError"
                 THEN enif_make_tuple_from_array(
                          <<enif_make_atom("error"), enif_make_string(r.error)>>)
                 ELSE enif_make_atom("ok"),
        state |-> r.state, diag |-> r.error, conn |-> r.conn]

TransactionStep(op, sql) ==
    /\ conn.open
    /\ opsLeft > 0
    /\ opsLeft' = opsLeft - 1
    /\ LET call == ConnectionTransaction(conn, sql)
       IN /\ conn' = call.conn
          /\ txnOut' = [k |-> "returned", op |-> op, term |-> call.term,
                        state |-> call.state, diag |-> call.diag]
    /\ UNCHANGED <<result, heapFree, rowsOut, columnsOut, chunk, chunkOut, getChunkOut, chunkResources, appender, appenderCalls, appendOut, appenderTable, appenderFrees, callerValues, opOut, rowsCalls, calls, sql_buffer, stmt, execOut>>

connection_begin_transaction_nif == TransactionStep("begin_transaction", "BEGIN TRANSACTION")
connection_commit_nif == TransactionStep("commit", "COMMIT")
connection_rollback_nif == TransactionStep("rollback", "ROLLBACK")

InitTransaction ==
    /\ conn = [open |-> TRUE, in_transaction |-> FALSE]
    /\ txnOut = Pending
    /\ opsLeft = MaxOps
    /\ stmt = NoStmt
    /\ execOut = Pending
    /\ heapFree = HeapAmple
    /\ calls = <<>>
    /\ sql_buffer = NoSqlText
    /\ result = NoResult
    /\ rowsOut = Pending
    /\ columnsOut = Pending
    /\ chunk = NoChunk
    /\ chunkOut = Pending
    /\ getChunkOut = Pending
    /\ chunkResources = <<>>
    /\ appender = NoAppender
    /\ appenderCalls = <<>>
    /\ appendOut = Pending
    /\ appenderTable = <<>>
    /\ appenderFrees = <<>>
    /\ callerValues = {}
    /\ opOut = Pending
    /\ rowsCalls = {}

Init ==
    InitRows \/ InitChunk \/ InitAppender \/ InitQuery \/ InitExecute \/ InitTransaction

Next ==
    \/ result_rows_nif
    \/ result_columns_nif
    \/ result_get_chunk_nif
    \/ data_chunk_get_data_nif
    \/ appender_append_int8_nif
    \/ appender_append_int16_nif
    \/ appender_append_int32_nif
    \/ appender_append_int64_nif
    \/ appender_append_uint8_nif
    \/ appender_append_uint16_nif
    \/ appender_append_uint32_nif
    \/ appender_append_uint64_nif
    \/ appender_append_null_nif
    \/ appender_column_count_nif
    \/ appender_end_row_nif
    \/ appender_flush_nif
    \/ appender_close_nif
    \/ appender_destroy_nif
    \/ appender_resource_destructor
    \/ connection_query_nif
    \/ prepared_statement_prepare_nif
    \/ prepared_statement_execute_nif
    \/ result_resource_destructor
    \/ connection_begin_transaction_nif
    \/ connection_commit_nif
    \/ connection_rollback_nif

Spec == Init /\ [][Next]_vars

---------------------------------------------------------------------------
(* Properties.  What the caller can observe of a call is its input        *)
(* (result or chunk) and the term it returned.                            *)

\* the call on the result / on the chunk has returned a list of row tuples
RowsReturned == result # NoResult /\ rowsOut.k = "list"
ChunkReturned == chunk # NoChunk /\ chunkOut.k = "list"

\* a result / a chunk of one column and one row, and the term of its cell
OneCellResult(type, cell) == [cols |-> <<type>>, rows |-> <<<<cell>>>>]
IsOneCellResult(type) ==
    /\ result.cols = <<type>>
    /\ Len(result.rows) = 1
    /\ rowsOut # Pending
IsOneCellChunk(type_id) ==
    /\ Len(chunk.cols) = 1
    /\ chunk.size = 1
    /\ chunk.cols[1].column_type.id = type_id
    /\ chunkOut # Pending
RowTerm(r, c) == rowsOut.v[r].v[c]
ChunkTerm(r, c) == chunkOut.v[r].v[c]

\* the validity bitmap marks the row as SQL NULL
MarkedNull(vector, row_idx) ==
    vector.validity # NoValidity /\ ~vector.validity[row_idx + 1]

\* reading a text as an arbitrary-precision decimal integer
AllDigits(s) ==
    /\ s # <<>>
    /\ \A i \in 1..Len(s) :
         s[i] \in {"0", "1", "2", "3", "4", "5", "6", "7", "8", "9"}
IsDecimalText(s) ==
    /\ s # <<>>
    /\ AllDigits(IF s[1] = "-" THEN Tail(s) ELSE s)
RECURSIVE DigitsValue(_)
DigitsValue(s) ==
    IF s = <<>> THEN 0
    ELSE 10 * DigitsValue(SubSeq(s, 1, Len(s) - 1))
         + (CHOOSE d \in 0..9 : ToString(d) = s[Len(s)])
DecimalValue(s) ==
    IF s[1] = "-" THEN -DigitsValue(Tail(s)) ELSE DigitsValue(s)

\* the fields of a text between its colons
RECURSIVE Fields(_)
Fields(s) ==
    IF \A i \in 1..Len(s) : s[i] # ":" THEN <<s>>
    ELSE LET i == CHOOSE j \in 1..Len(s) :
                    s[j] = ":" /\ \A h \in 1..(j - 1) : s[h] # ":"
         IN <<SubSeq(s, 1, i - 1)>> \o Fields(SubSeq(s, i + 1, Len(s)))

\* C1: result_rows returns nil for every cell exactly when some column is
\* UUID and there is more than one column; otherwise each cell is what the
\* extraction of that cell alone gives, and a non-NULL cell of a single
\* UUID column is returned as its UUID text.
C1_MultiColumnUuid ==
    /\ Len(result.cols) > 1
    /\ \E c \in 1..Len(result.cols) : result.cols[c] = "UUID"
C2_NilIffMarkedNull ==
    ChunkReturned =>
        \A r \in 1..chunk.size : \A c \in 1..Len(chunk.cols) :
            (ChunkTerm(r, c) = atom_nil) <=> MarkedNull(chunk.cols[c], r - 1)

\* C3: on the row path, outside the multi-column UUID short-circuit, a
\* cell is returned as nil only if the engine reports it as SQL NULL,
\* whatever its text (empty and "NULL" included) and whatever its type.
C3_NilOnlyIfSqlNull ==
    (RowsReturned /\ ~C1_MultiColumnUuid) =>
        \A r \in 1..Len(result.rows) : \A c \in 1..Len(result.cols) :
            (RowTerm(r, c) = atom_nil) => result.rows[r][c].null

\* C4: a map cell in which a key occurs twice or more is returned as a map
\* binding each key to the value of its last entry, never as a failure
\* marker.
C4_LastEntryOf(keys, key) ==
    CHOOSE i \in 1..Len(keys) :
        keys[i] = key /\ \A j \in (i + 1)..Len(keys) : keys[j] # key
C4_MapLastWriteWins ==
    (IsOneCellChunk("MAP") /\ chunkOut.k = "list"
        /\ ~MarkedNull(chunk.cols[1], 0)) =>
        LET entry == chunk.cols[1].data[1]
            pairs == chunk.cols[1].child[1].children
            keys == [i \in 1..entry.length |-> pairs[1].data[entry.offset + i]]
            values == [i \in 1..entry.length |-> pairs[2].data[entry.offset + i]]
            out == ChunkTerm(1, 1)
        IN /\ out.k = "map"
           /\ {out.v[i][1] : i \in 1..Len(out.v)}
                = {enif_make_long(keys[i]) : i \in 1..Len(keys)}
           /\ \A i \in 1..Len(out.v) :
                \E key \in {keys[j] : j \in 1..Len(keys)} :
                    /\ out.v[i][1] = enif_make_long(key)
                    /\ out.v[i][2] = enif_make_long(values[C4_LastEntryOf(keys, key)])


\* the HUGEINT / UHUGEINT cell of a one-cell chunk and its value
\* upper * 2^64 + lower
HugeCell == chunk.cols[1].data[1]
HugeCellValue == HugeCell.upper * WordMod + HugeCell.lower

\* C5 (as stated): a HUGEINT outside the signed 64-bit range is returned
\* on the chunk path as a string of an optional sign and decimal digits
\* that reads back as the value.
C5_DecimalString ==
    (IsOneCellChunk("HUGEINT") /\ HugeCellValue \notin Int64) =>
        /\ chunkOut.k = "list"
        /\ ChunkTerm(1, 1).k = "bin"
        /\ IsDecimalText(ChunkTerm(1, 1).v)
        /\ DecimalValue(ChunkTerm(1, 1).v) = HugeCellValue

\* C5 (amended): a HUGEINT outside the signed 64-bit range is returned on
\* the chunk path as the string "hugeint:<upper>:<lower>", upper the
\* signed decimal of the high word and lower the unsigned decimal of the
\* low word, so that upper * 2^64 + lower reads back as the value.
C5_TaggedWords ==
    (IsOneCellChunk("HUGEINT") /\ HugeCellValue \notin Int64) =>
        /\ chunkOut.k = "list"
        /\ ChunkTerm(1, 1).k = "bin"
        /\ LET fields == Fields(ChunkTerm(1, 1).v)
           IN /\ Len(fields) = 3
              /\ fields[1] = <<"h", "u", "g", "e", "i", "n", "t">>
              /\ IsDecimalText(fields[2])
              /\ AllDigits(fields[3])
              /\ DecimalValue(fields[2]) \in Int64
              /\ DecimalValue(fields[3]) \in UInt64
              /\ DecimalValue(fields[2]) * WordMod + DecimalValue(fields[3])
                    = HugeCellValue
\* a negative HUGEINT below the 64-bit range came back as a string
C5_Witness ==
    /\ IsOneCellChunk("HUGEINT")
    /\ HugeCellValue < LLONG_MIN
    /\ HugeCell.lower > LLONG_MAX
    /\ chunkOut.k = "list"
    /\ ChunkTerm(1, 1).k = "bin"

\* C6: a HUGEINT within the signed 64-bit range is returned on the chunk
\* path as the native integer of the same value, and no HUGEINT outside
\* that range is returned as a native integer.
C6_NativeIffInRange ==
    IsOneCellChunk("HUGEINT") =>
        /\ chunkOut.k = "list"
        /\ (HugeCellValue \in Int64
                => ChunkTerm(1, 1) = [k |-> "int", v |-> HugeCellValue])
        /\ (ChunkTerm(1, 1).k = "int" => HugeCellValue \in Int64)
\* the smallest 64-bit value, whose low word has its top bit set, came
\* back as a native integer
C6_Witness ==
    /\ IsOneCellChunk("HUGEINT")
    /\ HugeCellValue = LLONG_MIN
    /\ chunkOut.k = "list"
    /\ ChunkTerm(1, 1).k = "int"


\* C7: on the row path a HUGEINT v with |v| <= 2^63 - 1, the two boundary
\* values included, is returned as the native integer v, and any other as
\* a decimal string that reads back as v.
C7_RowHugeint ==
    (IsOneCellResult("HUGEINT") /\ ~result.rows[1][1].null) =>
        LET v == DecimalValue(result.rows[1][1].str)
        IN /\ rowsOut.k = "list"
           /\ IF -LLONG_MAX <= v /\ v <= LLONG_MAX
              THEN RowTerm(1, 1) = [k |-> "int", v |-> v]
              ELSE /\ RowTerm(1, 1).k = "bin"
                   /\ IsDecimalText(RowTerm(1, 1).v)
                   /\ DecimalValue(RowTerm(1, 1).v) = v

\* C8: on the chunk path a UHUGEINT that fits the unsigned 64-bit range is
\* returned as a native integer, and any other as a string of decimal
\* digits only that reads back as the value (so no two values share one).
C8_Uhugeint ==
    IsOneCellChunk("UHUGEINT") =>
        /\ chunkOut.k = "list"
        /\ IF HugeCellValue \in UInt64
           THEN ChunkTerm(1, 1) = [k |-> "int", v |-> HugeCellValue]
           ELSE /\ ChunkTerm(1, 1).k = "bin"
                /\ AllDigits(ChunkTerm(1, 1).v)
                /\ DecimalValue(ChunkTerm(1, 1).v) = HugeCellValue

\* C9: on the chunk path a DECIMAL of raw value r is returned as the
\* integer r when the scale is 0 and as the double r / 10^scale otherwise,
\* whatever the internal storage width.
C9_DecimalRaw ==
    LET cell == chunk.cols[1].data[1]
    IN IF chunk.cols[1].column_type.internal = "HUGEINT"
       THEN cell.upper * WordMod + cell.lower ELSE cell
C9_DecimalByScale ==
    IsOneCellChunk("DECIMAL") =>
        LET scale == chunk.cols[1].column_type.scale
            out == ChunkTerm(1, 1)
        IN /\ chunkOut.k = "list"
           /\ IF scale = 0
              THEN out = [k |-> "int", v |-> C9_DecimalRaw]
              ELSE /\ out.k = "double"
                   /\ out.v.cls = "fin"
                   /\ out.v.num * Pow(10, scale) = C9_DecimalRaw * out.v.den

\* C10: a FLOAT or DOUBLE cell holding NaN, +infinity or -infinity is
\* returned, on the row path and on the chunk path alike, as one of three
\* distinct sentinel atoms, never as a double, 0 or nil.
C10_Sentinel(cls) ==
    CASE cls = "nan" -> [k |-> "atom", v |-> "nan"]
      [] cls = "pinf" -> [k |-> "atom", v |-> "infinity"]
      [] cls = "ninf" -> [k |-> "atom", v |-> "negative_infinity"]
C10_TextClass(str) ==
    CASE str = <<"n", "a", "n">> -> "nan"
      [] str = <<"i", "n", "f">> -> "pinf"
      [] str = <<"-", "i", "n", "f">> -> "ninf"
      [] OTHER -> "fin"
C10_SpecialFloats ==
    /\ \A id \in {"FLOAT", "DOUBLE"} :
         (IsOneCellResult(id) /\ ~result.rows[1][1].null
            /\ C10_TextClass(result.rows[1][1].str) # "fin") =>
            /\ rowsOut.k = "list"
            /\ RowTerm(1, 1) = C10_Sentinel(C10_TextClass(result.rows[1][1].str))
    /\ \A id \in {"FLOAT", "DOUBLE"} :
         (IsOneCellChunk(id) /\ ~MarkedNull(chunk.cols[1], 0)
            /\ chunk.cols[1].data[1].cls # "fin") =>
            /\ chunkOut.k = "list"
            /\ ChunkTerm(1, 1) = C10_Sentinel(chunk.cols[1].data[1].cls)


\* C11: on the chunk path a TIME_TZ cell of time of day h:m:s.u and offset
\* o is returned as the pair {((h*60+m)*60+s)*1000000+u, o}.
C11_TimeTzMicrosSinceMidnight ==
    (IsOneCellChunk("TIME_TZ") /\ ~MarkedNull(chunk.cols[1], 0)) =>
        LET d == duckdb_from_time_tz(chunk.cols[1].data[1])
            t == d.time
        IN /\ chunkOut.k = "list"
           /\ ChunkTerm(1, 1) =
                [k |-> "tuple",
                 v |-> <<[k |-> "int",
                          v |-> ((t.hour * 60 + t.min) * 60 + t.sec) * 1000000 + t.micros],
                         [k |-> "int", v |-> d.offset]>>]


\* reading four hexadecimal digits as a number
C12_HexDigit(c) ==
    CHOOSE d \in 0..15 :
        <<"0", "1", "2", "3", "4", "5", "6", "7",
          "8", "9", "a", "b", "c", "d", "e", "f">>[d + 1] = c
C12_Hex4Value(s, from) ==
    ((C12_HexDigit(s[from]) * 16 + C12_HexDigit(s[from + 1])) * 16
        + C12_HexDigit(s[from + 2])) * 16 + C12_HexDigit(s[from + 3])
\* the 128 bits read back from the five groups of a UUID text, as the
\* 16-bit pieces of the high and of the low word
C12_Parse(s) ==
    [upper |-> <<C12_Hex4Value(s, 1), C12_Hex4Value(s, 5),
                 C12_Hex4Value(s, 10), C12_Hex4Value(s, 15)>>,
     lower |-> <<C12_Hex4Value(s, 20), C12_Hex4Value(s, 25),
                 C12_Hex4Value(s, 29), C12_Hex4Value(s, 33)>>]

\* C12: on the chunk path a UUID is returned as lower-case hex groups of
\* width 8-4-4-4-12, the first being the upper 32 bits of the high word,
\* and reading the groups back gives the stored 128 bits again.
C12_UuidRoundTrip ==
    (IsOneCellChunk("UUID") /\ ~MarkedNull(chunk.cols[1], 0)) =>
        /\ chunkOut.k = "list"
        /\ ChunkTerm(1, 1).k = "bin"
        /\ LET text == ChunkTerm(1, 1).v
           IN /\ Len(text) = 36
              /\ \A i \in 1..36 :
                    IF i \in {9, 14, 19, 24} THEN text[i] = "-"
                    ELSE text[i] \in {"0", "1", "2", "3", "4", "5", "6", "7",
                                      "8", "9", "a", "b", "c", "d", "e", "f"}
              /\ C12_Parse(text) = chunk.cols[1].data[1]
\* a UUID whose high word has only its top bit set was formatted
C12_Witness ==
    /\ IsOneCellChunk("UUID")
    /\ ~MarkedNull(chunk.cols[1], 0)
    /\ chunk.cols[1].data[1].upper = <<32768, 0, 0, 0>>
    /\ chunkOut.k = "list"
    /\ ChunkTerm(1, 1).k = "bin"


C15_ExactBytes ==
    \A id \in {"VARCHAR", "BLOB", "BIT"} :
        (IsOneCellChunk(id) /\ ~MarkedNull(chunk.cols[1], 0)) =>
            LET cell == chunk.cols[1].data[1]
            IN /\ chunkOut.k = "list"
               /\ ChunkTerm(1, 1).k = "bin"
               /\ Len(ChunkTerm(1, 1).v) = cell.length
               /\ \A i \in 1..cell.length : ChunkTerm(1, 1).v[i] = cell.data[i]
\* a blob of three bytes with a NUL in the middle, followed in memory by
\* another byte, came back as its three bytes
C15_Witness ==
    /\ IsOneCellChunk("BLOB")
    /\ ~MarkedNull(chunk.cols[1], 0)
    /\ chunk.cols[1].data[1] = [length |-> 3, data |-> <<"a", "\\0", "b", "Z">>]
    /\ chunkOut.k = "list"
    /\ ChunkTerm(1, 1) = [k |-> "bin", v |-> <<"a", "\\0", "b">>]


\* C16: when a chunk has a column of a type the chunk path does not
\* support (UNION, TIMESTAMP_TZ, an unmapped type id) and the row arrays
\* are allocated, every row is still returned: each valid cell of such a
\* column is a non-nil sentinel atom and each cell of any other column is
\* what extracting that column alone gives.
C16_Unsupported == {"UNION", "TIMESTAMP_TZ", "INVALID", "ANY", "VARINT", "SQLNULL"}
C16_Sentinel(type_id) ==
    CASE type_id = "TIMESTAMP_TZ" -> [k |-> "atom", v |-> "unsupported_timestamp_tz_type"]
      [] type_id = "UNION" ->
            [k |-> "atom", v |-> "unsupported_union_type_", id |-> type_id]
      [] OTHER -> [k |-> "atom", v |-> "unsupported_type_", id |-> type_id]
C17_Listed ==
    {"BOOLEAN", "TINYINT", "SMALLINT", "INTEGER", "BIGINT",
     "UTINYINT", "USMALLINT", "UINTEGER", "UBIGINT", "HUGEINT", "UHUGEINT",
     "FLOAT", "DOUBLE", "DECIMAL", "VARCHAR", "BLOB", "DATE", "TIME", "TIME_TZ",
     "TIMESTAMP", "TIMESTAMP_S", "TIMESTAMP_MS", "TIMESTAMP_NS", "TIMESTAMP_TZ",
     "INTERVAL", "UUID", "BIT", "ENUM", "LIST", "ARRAY", "STRUCT", "MAP", "UNION"}

\* the type entry of column c in what result_columns_nif returned
C17_Tag(c) == columnsOut.v[c].v[2][2]

\* C17: the type tag mapper is total: every type identifier maps to one
\* atom, every identifier the data model lists maps to a tag of its own
\* (different from the tag of every other listed identifier and from
\* unknown), every other identifier maps to unknown; and the tag that
\* columns() reports for a column is the mapper's tag for the column's type
C17_TagMapperTotal ==
    /\ \A t \in TypeIds :
        /\ duckdb_type_to_atom(t).k = "atom"
        /\ t \notin C17_Listed => duckdb_type_to_atom(t) = enif_make_atom("unknown")
        /\ t \in C17_Listed =>
            /\ duckdb_type_to_atom(t) # enif_make_atom("unknown")
            /\ \A u \in C17_Listed \ {t} : duckdb_type_to_atom(u) # duckdb_type_to_atom(t)
    /\ (result # NoResult /\ columnsOut.k = "list") =>
        /\ Len(columnsOut.v) = Len(result.cols)
        /\ \A c \in 1..Len(result.cols) :
            /\ C17_Tag(c) = duckdb_type_to_atom(result.cols[c])
            /\ (C17_Tag(c) = enif_make_atom("unknown")) <=> (result.cols[c] \notin C17_Listed)
            /\ \A d \in 1..Len(result.cols) :
                (C17_Tag(c) = C17_Tag(d)) <=> (result.cols[c] = result.cols[d])

\* columns() of a BIGINT, UUID table, and of a column of an unlisted type
C17_Witness ==
    /\ columnsOut.k = "list"
    /\ \/ /\ result.cols = <<"BIGINT", "UUID">>
          /\ C17_Tag(1) = enif_make_atom("bigint")
          /\ C17_Tag(2) = enif_make_atom("uuid")
       \/ /\ result.cols = <<"VARINT">>
          /\ C17_Tag(1) = enif_make_atom("unknown")


\* the number of chunks the caller is told the result has
C18_ChunkCount == duckdb_result_chunk_count(result)

\* an error value {error, message}, and a returned ChunkHandle {ok, resource}
C18_IsErrorValue(term) ==
    term.k = "tuple" /\ Len(term.v) = 2 /\ term.v[1] = enif_make_atom("error")
C18_IsChunkHandle(term) ==
    /\ term.k = "tuple" /\ Len(term.v) = 2
    /\ term.v[1] = enif_make_atom("ok") /\ term.v[2].k = "resource"

\* C18: get_chunk(result, index) with an integer index outside
\* 0..chunk_count(result)-1 returns an index error value and creates no
\* ChunkHandle; with an index inside the range it returns a ChunkHandle.
C18_GetChunkIndexError ==
    (result # NoResult /\ getChunkOut # Pending) =>
        IF getChunkOut.index \in 0..(C18_ChunkCount - 1)
        THEN C18_IsChunkHandle(getChunkOut.term) /\ Len(chunkResources) = 1
        ELSE C18_IsErrorValue(getChunkOut.term) /\ chunkResources = <<>>


\* the append NIF op has returned
C19_Returned(op) == appender # NoAppender /\ appendOut # Pending /\ appendOut.op = op

\* C19: append_int8 of any integer outside [-128,127], however large,
\* returns a RangeError error value and makes no call into the engine's
\* appender; a value inside the range is forwarded unchanged.
C19_Int8RangeError ==
    C19_Returned("int8") =>
        IF appendOut.value \in -128..127
        THEN appenderCalls = <<[fn |-> "duckdb_append_int8", value |-> appendOut.value]>>
        ELSE /\ C18_IsErrorValue(appendOut.term)
             /\ appendOut.term.v[2].k = "bin"
             /\ appenderCalls = <<>>


\* the least and greatest value of the target type of each append operation
C20_Min(op) ==
    CASE op = "int8" -> -128
      [] op = "int16" -> -32768
      [] op = "int32" -> -Pow(2, IntBits - 1)
      [] op = "int64" -> -Pow(2, Int64Bits - 1)
      [] OTHER -> 0
C20_Max(op) ==
    CASE op = "int8" -> 127
      [] op = "int16" -> 32767
      [] op = "int32" -> Pow(2, IntBits - 1) - 1
      [] op = "int64" -> Pow(2, Int64Bits - 1) - 1
      [] op = "uint8" -> 255
      [] op = "uint16" -> 65535
      [] op = "uint32" -> Pow(2, IntBits) - 1
      [] op = "uint64" -> Pow(2, Int64Bits) - 1
C20_Ops == {"int8", "int16", "int32", "int64", "uint8", "uint16", "uint32", "uint64"}
C20_InRange(op, v) == v >= C20_Min(op) /\ v <= C20_Max(op)
C20_Fn(op) ==
    CASE op = "int8" -> "duckdb_append_int8"
      [] op = "int16" -> "duckdb_append_int16"
      [] op = "int32" -> "duckdb_append_int32"
      [] op = "int64" -> "duckdb_append_int64"
      [] op = "uint8" -> "duckdb_append_uint8"
      [] op = "uint16" -> "duckdb_append_uint16"
      [] op = "uint32" -> "duckdb_append_uint32"
      [] op = "uint64" -> "duckdb_append_uint64"

\* C20: no silent truncation: for each of the eight integer append
\* operations and every integer input, every value handed to the engine is
\* handed to the operation's own duckdb_append function and equals the
\* caller's value, an input outside the target type's range makes no
\* engine call at all, and no value outside its type's range is in the row.
C20_NoSilentTruncation ==
    (appender # NoAppender /\ appendOut # Pending) =>
        /\ appendOut.op \in C20_Ops
        /\ \A i \in 1..Len(appenderCalls) :
            /\ appenderCalls[i].value = appendOut.value
            /\ appenderCalls[i].fn = C20_Fn(appendOut.op)
        /\ ~C20_InRange(appendOut.op, appendOut.value) => appenderCalls = <<>>
        /\ \A i \in 1..Len(appender.row) : \A op \in C20_Ops :
            appender.row[i].fn = C20_Fn(op) => C20_InRange(op, appender.row[i].value)

\* append_int16 of -32768 and append_uint32 of the greatest uint32 reach the
\* engine as they are; append_uint8 of 256 does not reach it
C20_Witness ==
    /\ appendOut # Pending
    /\ \/ /\ appendOut.op = "int16" /\ appendOut.value = -32768
          /\ appenderCalls = <<[fn |-> "duckdb_append_int16", value |-> -32768]>>
          /\ appendOut.term = enif_make_atom("ok")
       \/ /\ appendOut.op = "uint32" /\ appendOut.value = UINT32_MAX
          /\ appenderCalls = <<[fn |-> "duckdb_append_uint32", value |-> UINT32_MAX]>>
       \/ /\ appendOut.op = "uint8" /\ appendOut.value = 256
          /\ appenderCalls = <<>>


\* the last call on the handle was op, made when the handle was already empty
C21_OnEmptyHandle(op) ==
    appender # NoAppender /\ opOut # Pending /\ opOut.op = op /\ opOut.before.ptr = "NULL"

\* C21: destroy() called again on a handle that an earlier destroy() emptied
\* is a no-op: it reports success like the first call, releases nothing in
\* the engine, and leaves the handle empty.
C21_SecondDestroyNoop ==
    C21_OnEmptyHandle("destroy") =>
        /\ opOut.term = enif_make_atom("ok")
        /\ appender.ptr = "NULL"
        /\ Len(appenderFrees) <= 1


\* the appends, end_row and flush; a call that failed: an error value or a
\* bad-argument exception
C23_Ops == C20_Ops \cup {"append_null", "end_row", "flush"}
C23_Fails(term) == C18_IsErrorValue(term) \/ term = Badarg

\* C23: once close() has returned on a handle, every later append, end_row
\* and flush on it fails with an error and adds no row to the target table.
C23_ClosedCursorUnusable ==
    [][(appender.ptr = "live" /\ appender.closed /\ opOut'.op \in C23_Ops) =>
            (C23_Fails(opOut'.term) /\ appenderTable' = appenderTable)]_vars


\* the automatic teardown of the AppenderResource has run
C28_TornDown == opOut # Pending /\ opOut.op = "destructor"

\* C28: for a created appender and any sequence of destroy() calls,
\* succeeding or failing, followed by the automatic teardown, the engine's
\* duckdb_appender_destroy releases the live cursor exactly once: never
\* twice, never a cursor already released (the handle's pointer is live
\* exactly as long as nothing was released), and once by the time the
\* teardown has run.
C28_ReleasedExactlyOnce ==
    /\ Len(appenderFrees) <= 1
    /\ \A i \in 1..Len(appenderFrees) : appenderFrees[i] = "live"
    /\ appender # NoAppender => (appender.ptr = "live" <=> appenderFrees = <<>>)
    /\ C28_TornDown => Len(appenderFrees) = 1

\* the teardown of a handle that an explicit destroy() had emptied
C28_Witness ==
    /\ C28_TornDown
    /\ opOut.before.ptr = "NULL"
    /\ appenderFrees = <<"live">>


\* the operations that change the appender or the table
C29_Mutating == C20_Ops \cup {"append_null", "end_row", "flush", "close", "destroy"}

\* C29: a destroy() that succeeded leaves the handle empty, and on an empty
\* handle every step keeps it empty (until the resource is torn down), puts
\* no row into the table and releases nothing; every mutating operation
\* fails: it returns an error value, unless it is an integer append whose
\* argument is rejected before any engine call; column_count returns 0.
C29_UseAfterDestroy ==
    [][/\ (opOut' # Pending /\ opOut'.op = "destroy" /\ opOut'.term = enif_make_atom("ok"))
            => appender'.ptr = "NULL"
       /\ appender.ptr = "NULL" =>
            /\ appender' \in {appender, NoAppender}
            /\ appenderTable' = appenderTable
            /\ appenderFrees' = appenderFrees
            /\ opOut'.op \in C29_Mutating =>
                /\ C23_Fails(opOut'.term)
                /\ opOut'.term = Badarg =>
                    (opOut'.op \in C20_Ops /\ appenderCalls' = <<>>)
            /\ opOut'.op = "column_count" => opOut'.term = enif_make_uint64(0)
      ]_vars

\* flush on a handle that destroy() emptied returns the NIF's own error text
C29_Witness ==
    /\ C21_OnEmptyHandle("flush")
    /\ opOut.term = make_error(<<"U", "n", "k", "n", "o", "w", "n", " ", "a", "p", "p", "e", "n", "d", "e", "r", " ", "f", "l", "u", "s", "h", " ", "e", "r", "r", "o", "r">>)
    /\ appenderTable = <<>>

\* C30: in result_rows, when the result has a UUID column and more than one
\* column, no per-cell engine accessor (NULL test, string conversion, blob
\* read) is invoked for any (column, row), whatever the allocator does; and
\* when the call returns, the output has exactly row_count tuples, each of
\* arity column_count.
C30_MultiColumnUuid ==
    /\ result # NoResult
    /\ rowsOut # Pending
    /\ Len(result.cols) > 1
    /\ \E c \in 1..Len(result.cols) : result.cols[c] = "UUID"
C30_NoCellReadUnderWorkaround ==
    C30_MultiColumnUuid =>
        /\ rowsCalls = {}
        /\ rowsOut # Segfault =>
              /\ rowsOut.k = "list"
              /\ Len(rowsOut.v) = Len(result.rows)
              /\ \A r \in 1..Len(rowsOut.v) :
                    rowsOut.v[r].k = "tuple" /\ Len(rowsOut.v[r].v) = Len(result.cols)
C30_Witness ==
    /\ C30_MultiColumnUuid
    /\ rowsOut # Segfault
    /\ Len(rowsOut.v) = MaxRows
    /\ \E r \in 1..Len(result.rows) : \E c \in 1..Len(result.cols) :
          result.cols[c] # "UUID" /\ ~result.rows[r][c].null
    /\ rowsCalls = {}

\* C26: whenever the allocation of a scratch buffer fails during row or
\* chunk extraction (the row array, a per-row value array, the element
\* buffer of a list cell), the call fails with an error value: it returns
\* no row list, shows no nil in place of the affected cell, and does not
\* write through the failed allocation.
C26_RowScratchFails ==
    /\ result # NoResult
    /\ rowsOut # Pending
    /\ Len(result.rows) > 0
    /\ (heapFree < Len(result.rows)
        \/ (Len(result.cols) > 0 /\ heapFree < Len(result.cols)))
C26_ChunkScratchFails ==
    /\ chunk # NoChunk
    /\ chunkOut # Pending
    /\ chunk.size > 0
    /\ \/ heapFree < chunk.size
       \/ (Len(chunk.cols) > 0 /\ heapFree < Len(chunk.cols))
       \/ \E c \in 1..Len(chunk.cols) : \E r \in 1..chunk.size :
             /\ chunk.cols[c].column_type.id = "LIST"
             /\ ~MarkedNull(chunk.cols[c], r - 1)
             /\ chunk.cols[c].child # <<>>
             /\ chunk.cols[c].data[r].length > heapFree
C26_IsResourceError(term) ==
    /\ term.k = "tuple"
    /\ Len(term.v) = 2
    /\ term.v[1] = enif_make_atom("error")
C26_AllocationFailureReported ==
    /\ C26_RowScratchFails => C26_IsResourceError(rowsOut)
    /\ C26_ChunkScratchFails => C26_IsResourceError(chunkOut)

\* C27: for any interleaving of two concurrent query or prepare calls, with
\* the SQL given as a binary or as a character list, the SQL text each call
\* hands to the engine is exactly the text its own caller supplied.
C27_Supplied(call) ==
    IF call.arg.k = "bin" THEN call.arg.v
    ELSE [i \in 1..Len(call.arg.v) |-> call.arg.v[i].v]
C27_OwnSqlReachesEngine ==
    \A i \in DOMAIN calls :
        calls[i].handed # NULLPTR => calls[i].handed = C27_Supplied(calls[i])


\* C22: on every path through query and prepared-statement execute
\* (success, and engine failure where the error message is read), the
\* engine's result-destroy routine is invoked
\* exactly once for the engine result written into the ResultHandle,
\* counting the explicit call in the operation and the automatic teardown
\* of the resource: once the resource is gone, the count is one.
C22_ResourceGone(call) ==
    /\ call.op = "query"
    /\ call.pc = "done"
    /\ call.state # "none"
    /\ call.handle # "held"
C22_ResultDestroyedOnce ==
    /\ \A i \in DOMAIN calls :
          /\ C22_ResourceGone(calls[i]) => calls[i].destroys = 1
          /\ calls[i].handle = "held" => calls[i].destroys = 0
    /\ (execOut # Pending /\ execOut.state # "none") =>
          execOut.destroys = (IF execOut.handle = "held" THEN 0 ELSE 1)


\* C24: when the parameter list of execute has the statement's number of
\* parameters and holds a value of an unsupported shape at some position
\* k, execute reports an error with no engine-side effect: no parameter
\* (in particular none of positions 1..k-1) has been bound on the
\* statement and the statement has not been executed.
C24_Unsupported(term) ==
    \/ term.k \in {"tuple", "map"}
    \/ term.k = "atom" /\ term.v \notin {"nil", "true", "false"}
C24_BadParameter ==
    /\ execOut # Pending
    /\ Len(execOut.params) = execOut.before.nparams
    /\ \E k \in 1..Len(execOut.params) : C24_Unsupported(execOut.params[k])
C24_FailFastNoPartialBind ==
    C24_BadParameter =>
        /\ execOut.term.k = "tuple"
        /\ execOut.term.v[1] = enif_make_atom("error")
        /\ Len(stmt.binds) = 0
        /\ stmt.executions = 0


\* C25: for every operation that fails because the engine rejected it
\* (query, prepare, execute, begin / commit / rollback, appender append,
\* end_row, flush, close, destroy), the error returned to the caller is
\* {error, Message} with Message a byte string holding exactly the
\* engine's diagnostic text for that failure: not a fixed replacement
\* text, not a term of another encoding.
C25_PassesThrough(term, diag) ==
    /\ term.k = "tuple"
    /\ Len(term.v) = 2
    /\ term.v[1] = enif_make_atom("error")
    /\ term.v[2].k = "bin"
    /\ term.v[2].v = diag
\* the diagnostic the engine has for the appender operation that just
\* failed: for destroy that of the close it performs, otherwise what
\* duckdb_appender_error reports
C25_AppenderDiag ==
    IF opOut.op = "destroy"
    THEN (IF opOut.before.ptr = "live"
          THEN duckdb_appender_close(opOut.before).appender.error ELSE NULLPTR)
    ELSE duckdb_appender_error(appender)
C25_AppenderRejected ==
    /\ opOut # Pending
    /\ opOut.op \in {"append_null", "end_row", "flush", "close", "destroy"}
    /\ opOut.term # enif_make_atom("ok")
    /\ C25_AppenderDiag # NULLPTR
C25_EngineErrorVerbatim ==
    /\ \A i \in DOMAIN calls :
          calls[i].state = "DuckDBError" =>
              C25_PassesThrough(calls[i].term, calls[i].diag)
    /\ (execOut # Pending /\ execOut.state = "DuckDBError") =>
          C25_PassesThrough(execOut.term, execOut.diag)
    /\ (txnOut # Pending /\ txnOut.state = "DuckDBError") =>
          C25_PassesThrough(txnOut.term, txnOut.diag)
    /\ C25_AppenderRejected => C25_PassesThrough(opOut.term, C25_AppenderDiag)

=============================================================================
